---- MODULE Spec2Model ----
(***************************************************************************)
(* Salary Tracker: the salary calculation engine (utils/salaryCalculations),*)
(* the SalaryRecord persistence schema with its save hooks, the request    *)
(* handlers of routes/salary.js and the live calculation of the            *)
(* SalaryTracker component.                                                *)
(*                                                                         *)
(* Monetary amounts are JavaScript numbers.  A finite number is modelled   *)
(* as an integer count of thousandths of the major unit (v = 29 is 0.029,  *)
(* v = 10 is 0.01); NaN, +Infinity, -Infinity and the non-number values a  *)
(* caller can pass (a string, null, undefined) are separate kinds.         *)
(* Arithmetic is exact on the thousandths.  The three places where the     *)
(* IEEE-754 double evaluation of the source's expression differs from the  *)
(* exact one are tabulated for the modelled range: DoubleWithinTolerance,  *)
(* DoubleProductInexact and DoubleDifferenceBelowTie.                      *)
(***************************************************************************)
EXTENDS Integers, Sequences, FiniteSets, TLC

VARIABLES
    fn,      \* engine call: name of the function applied ("none" before the call)
    argT,    \* engine call: first operand (totalMonthlySalary)
    argA,    \* engine call: second operand (advanceAmountPaid)
    ret,     \* engine call: outcome of the call (returned value or thrown error)
    db,      \* persistence: the stored SalaryRecord documents
    nextId,  \* persistence: number of _id values handed out so far
    pc,      \* request handling: per client, the await point its request is at
    doc,     \* request handling: per client, the document its request holds
    event,   \* the operation that completed in the latest step, with its response
    salaryRecordsList,  \* browser: the component's salaryRecords state, the records it lists
    deleteModal     \* browser: the state of the delete confirmation modal

vars == <<fn, argT, argA, ret, db, nextId, pc, doc, event, salaryRecordsList, deleteModal>>

(***************************************************************************)
(* Bounds of the model.                                                    *)
(***************************************************************************)
\* largest finite operand of an engine call, in thousandths
MaxAmount == 30
\* most negative finite operand of an engine call, in thousandths (as a magnitude)
MaxNegative == 2
\* number of _id values the store hands out
MaxId == 2

(***************************************************************************)
(* JavaScript values.                                                      *)
(***************************************************************************)
\* a finite number of n thousandths; below marks a double that lies strictly
\* below the decimal n/1000 it stands for by more than a literal would
Num(n) == [kind |-> "num", v |-> n, below |-> FALSE]
NaN == [kind |-> "nan", v |-> 0, below |-> FALSE]
PosInfinity == [kind |-> "inf", v |-> 0, below |-> FALSE]
NegInfinity == [kind |-> "ninf", v |-> 0, below |-> FALSE]
StringValue == [kind |-> "string", v |-> 0, below |-> FALSE]
NullValue == [kind |-> "null", v |-> 0, below |-> FALSE]
UndefinedValue == [kind |-> "undefined", v |-> 0, below |-> FALSE]
Zero == Num(0)

\* typeof x === 'number'
TypeofNumber(x) == x.kind \in {"num", "nan", "inf", "ninf"}
\* Number.isFinite(x)
NumberIsFinite(x) == x.kind = "num"

\* x < y on two numbers: false as soon as one of them is NaN
JsLess(x, y) ==
    CASE x.kind = "nan" \/ y.kind = "nan" -> FALSE
      [] x.kind = "num" /\ y.kind = "num" -> x.v < y.v
      [] x.kind = "ninf" -> y.kind # "ninf"
      [] x.kind = "inf" -> FALSE
      [] OTHER -> y.kind = "inf"
\* x > y
JsGreater(x, y) == JsLess(y, x)
\* x === y on two numbers: NaN equals nothing
JsStrictEquals(x, y) == x.kind # "nan" /\ x.kind = y.kind /\ x.v = y.v

\* Pairs <<t, a>> of thousandths, 0 <= a <= t <= 46, for which the double t - a
\* lies below the exact difference, which ends in a 5: scaled by 100 it falls
\* short of the half and Math.round takes it down instead of up.
DoubleDifferenceBelowTie ==
    { <<9, 4>>, <<11, 6>>, <<13, 8>>, <<15, 10>>, <<18, 13>>, <<19, 14>>,
      <<22, 17>>, <<26, 21>>, <<30, 25>>, <<36, 1>>, <<36, 21>>, <<36, 31>>,
      <<37, 2>>, <<37, 32>>, <<38, 3>>, <<38, 33>>, <<39, 34>>, <<40, 35>>,
      <<43, 8>>, <<43, 28>>, <<43, 38>>, <<44, 9>>, <<44, 29>>, <<44, 39>>,
      <<45, 10>>, <<45, 40>>, <<46, 41>> }

\* x - y on two numbers
JsMinus(x, y) ==
    CASE x.kind = "nan" \/ y.kind = "nan" -> NaN
      [] x.kind = "num" /\ y.kind = "num" ->
            [kind |-> "num", v |-> x.v - y.v,
             below |-> <<x.v, y.v>> \in DoubleDifferenceBelowTie]
      [] x.kind = y.kind -> NaN
      [] x.kind = "num" -> IF y.kind = "inf" THEN NegInfinity ELSE PosInfinity
      [] OTHER -> x

\* Math.round(x * 100) / 100: scale to hundredths, round half up, unscale
RoundToCents(x) ==
    IF x.kind # "num" THEN x
    ELSE IF x.v % 10 = 5 /\ x.below THEN Num(x.v - 5)
    ELSE Num(((x.v + 5) \div 10) * 10)

\* Math.abs(x - y) on two finite numbers, in thousandths
AbsDifference(x, y) == IF x.v >= y.v THEN x.v - y.v ELSE y.v - x.v

(***************************************************************************)
(* Outcomes of an engine call: a returned number, string or boolean, or a  *)
(* thrown Error with its message.                                          *)
(***************************************************************************)
Return(x) == [ok |-> TRUE, num |-> x, str |-> "", err |-> ""]
ReturnString(s) == [ok |-> TRUE, num |-> Zero, str |-> s, err |-> ""]
ReturnTrue == [ok |-> TRUE, num |-> Zero, str |-> "true", err |-> ""]
ReturnFalse == [ok |-> TRUE, num |-> Zero, str |-> "false", err |-> ""]
Throw(msg) == [ok |-> FALSE, num |-> Zero, str |-> "", err |-> msg]
NoOutcome == [ok |-> FALSE, num |-> Zero, str |-> "", err |-> "not called"]

(***************************************************************************)
(* utils/salaryCalculations: the calculation engine.                       *)
(***************************************************************************)
\* calculateRemainingSalary with the difference rounded to whole units
\* instead of hundredths
calculateRemainingSalaryWholeUnits(totalMonthlySalary, advanceAmountPaid) ==
    IF ~TypeofNumber(totalMonthlySalary) \/ ~TypeofNumber(advanceAmountPaid)
    THEN Throw("Salary amounts must be numbers")
    ELSE IF JsLess(totalMonthlySalary, Zero)
    THEN Throw("Total monthly salary cannot be negative")
    ELSE IF JsLess(advanceAmountPaid, Zero)
    THEN Throw("Advance amount paid cannot be negative")
    ELSE IF JsGreater(advanceAmountPaid, totalMonthlySalary)
    THEN Throw("Advance amount cannot exceed total monthly salary")
    ELSE LET remaining == JsMinus(totalMonthlySalary, advanceAmountPaid)
         IN  IF remaining.kind # "num" THEN Return(remaining)
             ELSE Return(Num(((remaining.v + 500) \div 1000) * 1000))

\* calculateRemainingSalary with the advance tested for a negative value
\* before the total
calculateRemainingSalaryAdvanceFirst(totalMonthlySalary, advanceAmountPaid) ==
    IF ~TypeofNumber(totalMonthlySalary) \/ ~TypeofNumber(advanceAmountPaid)
    THEN Throw("Salary amounts must be numbers")
    ELSE IF JsLess(advanceAmountPaid, Zero)
    THEN Throw("Advance amount paid cannot be negative")
    ELSE IF JsLess(totalMonthlySalary, Zero)
    THEN Throw("Total monthly salary cannot be negative")
    ELSE IF JsGreater(advanceAmountPaid, totalMonthlySalary)
    THEN Throw("Advance amount cannot exceed total monthly salary")
    ELSE LET remaining == JsMinus(totalMonthlySalary, advanceAmountPaid)
         IN  Return(RoundToCents(remaining))

calculateRemainingSalary(totalMonthlySalary, advanceAmountPaid) ==
    IF ~TypeofNumber(totalMonthlySalary) \/ ~TypeofNumber(advanceAmountPaid)
    THEN Throw("Salary amounts must be numbers")
    ELSE IF JsLess(totalMonthlySalary, Zero)
    THEN Throw("Total monthly salary cannot be negative")
    ELSE IF JsLess(advanceAmountPaid, Zero)
    THEN Throw("Advance amount paid cannot be negative")
    ELSE IF JsGreater(advanceAmountPaid, totalMonthlySalary)
    THEN Throw("Advance amount cannot exceed total monthly salary")
    ELSE LET remaining == JsMinus(totalMonthlySalary, advanceAmountPaid)
         IN  Return(RoundToCents(remaining))

\* determinePaymentStatus with the 'Pending' branch tested before 'Paid'
determinePaymentStatusPendingFirst(totalMonthlySalary, advanceAmountPaid) ==
    LET remainingSalary == calculateRemainingSalary(totalMonthlySalary, advanceAmountPaid)
    IN  IF ~remainingSalary.ok THEN remainingSalary
        ELSE IF JsStrictEquals(advanceAmountPaid, Zero) THEN ReturnString("Pending")
        ELSE IF JsStrictEquals(remainingSalary.num, Zero) THEN ReturnString("Paid")
        ELSE IF JsGreater(advanceAmountPaid, Zero) /\ JsGreater(remainingSalary.num, Zero)
        THEN ReturnString("Partially Paid")
        ELSE Throw("Unable to determine payment status with given inputs")

determinePaymentStatus(totalMonthlySalary, advanceAmountPaid) ==
    LET remainingSalary == calculateRemainingSalary(totalMonthlySalary, advanceAmountPaid)
    IN  IF ~remainingSalary.ok THEN remainingSalary
        ELSE IF JsStrictEquals(remainingSalary.num, Zero) THEN ReturnString("Paid")
        ELSE IF JsGreater(advanceAmountPaid, Zero) /\ JsGreater(remainingSalary.num, Zero)
        THEN ReturnString("Partially Paid")
        ELSE IF JsStrictEquals(advanceAmountPaid, Zero) THEN ReturnString("Pending")
        ELSE Throw("Unable to determine payment status with given inputs")

\* Finite non-negative amounts v (thousandths), 0 <= v <= 130, that lie exactly
\* 0.001 from the nearest hundredth and for which the double
\* Math.abs(amount - rounded) does not compare greater than the double 0.001.
DoubleWithinTolerance == {1, 11, 29, 51, 71}

\* Math.abs(amount - rounded) > 0.001 for a finite amount and its rounding
ExceedsTolerance(amount, rounded) ==
    \/ AbsDifference(amount, rounded) > 1
    \/ AbsDifference(amount, rounded) = 1 /\ amount.v \notin DoubleWithinTolerance

\* validateMonetaryAmount with the sign tested before finiteness
validateMonetaryAmountNegativeFirst(amount, fieldName) ==
    IF ~TypeofNumber(amount) THEN Throw(fieldName \o " must be a number")
    ELSE IF JsLess(amount, Zero) THEN Throw(fieldName \o " cannot be negative")
    ELSE IF ~NumberIsFinite(amount) THEN Throw(fieldName \o " must be a finite number")
    ELSE LET rounded == RoundToCents(amount)
         IN  IF ExceedsTolerance(amount, rounded)
             THEN Throw(fieldName \o " must have at most 2 decimal places")
             ELSE ReturnTrue

validateMonetaryAmount(amount, fieldName) ==
    IF ~TypeofNumber(amount) THEN Throw(fieldName \o " must be a number")
    ELSE IF ~NumberIsFinite(amount) THEN Throw(fieldName \o " must be a finite number")
    ELSE IF JsLess(amount, Zero) THEN Throw(fieldName \o " cannot be negative")
    ELSE LET rounded == RoundToCents(amount)
         IN  IF ExceedsTolerance(amount, rounded)
             THEN Throw(fieldName \o " must have at most 2 decimal places")
             ELSE ReturnTrue

\* validateAdvanceAmount without the comparison of the advance with the total
validateAdvanceAmountNoComparison(totalMonthlySalary, advanceAmountPaid) ==
    LET total == validateMonetaryAmount(totalMonthlySalary, "Total monthly salary")
        advance == validateMonetaryAmount(advanceAmountPaid, "Advance amount paid")
    IN  IF ~total.ok THEN total
        ELSE IF ~advance.ok THEN advance
        ELSE ReturnTrue

\* validateAdvanceAmount with the advance validated before the total
validateAdvanceAmountAdvanceFirst(totalMonthlySalary, advanceAmountPaid) ==
    LET total == validateMonetaryAmount(totalMonthlySalary, "Total monthly salary")
        advance == validateMonetaryAmount(advanceAmountPaid, "Advance amount paid")
    IN  IF ~advance.ok THEN advance
        ELSE IF ~total.ok THEN total
        ELSE IF JsGreater(advanceAmountPaid, totalMonthlySalary)
        THEN Throw("Advance amount cannot exceed total monthly salary")
        ELSE ReturnTrue

validateAdvanceAmount(totalMonthlySalary, advanceAmountPaid) ==
    LET total == validateMonetaryAmount(totalMonthlySalary, "Total monthly salary")
        advance == validateMonetaryAmount(advanceAmountPaid, "Advance amount paid")
    IN  IF ~total.ok THEN total
        ELSE IF ~advance.ok THEN advance
        ELSE IF JsGreater(advanceAmountPaid, totalMonthlySalary)
        THEN Throw("Advance amount cannot exceed total monthly salary")
        ELSE ReturnTrue

\* the object calculateSalaryDetails returns (calculatedAt, the clock reading,
\* is not part of the model), or the error it throws
SalaryDetails(t, a, remaining, status) ==
    [ok |-> TRUE, totalMonthlySalary |-> t, advanceAmountPaid |-> a,
     remainingSalaryPayable |-> remaining, paymentStatus |-> status, err |-> ""]
SalaryDetailsError(msg) ==
    [ok |-> FALSE, totalMonthlySalary |-> Zero, advanceAmountPaid |-> Zero,
     remainingSalaryPayable |-> Zero, paymentStatus |-> "", err |-> msg]

calculateSalaryDetails(totalMonthlySalary, advanceAmountPaid) ==
    LET valid == validateAdvanceAmount(totalMonthlySalary, advanceAmountPaid)
        remainingSalaryPayable == calculateRemainingSalary(totalMonthlySalary, advanceAmountPaid)
        paymentStatus == determinePaymentStatus(totalMonthlySalary, advanceAmountPaid)
    IN  IF ~valid.ok THEN SalaryDetailsError(valid.err)
        ELSE IF ~remainingSalaryPayable.ok THEN SalaryDetailsError(remainingSalaryPayable.err)
        ELSE IF ~paymentStatus.ok THEN SalaryDetailsError(paymentStatus.err)
        ELSE SalaryDetails(totalMonthlySalary, advanceAmountPaid,
                           remainingSalaryPayable.num, paymentStatus.str)

isFullyPaid(totalMonthlySalary, advanceAmountPaid) ==
    LET remaining == calculateRemainingSalary(totalMonthlySalary, advanceAmountPaid)
    IN  IF ~remaining.ok THEN remaining
        ELSE IF JsStrictEquals(remaining.num, Zero) THEN ReturnTrue ELSE ReturnFalse

\* the text of the string a caller passes (StringValue): a currency symbol
\* to formatCurrency, unparsable text to parseFloat
StringText == "Rs."

\* the decimal digits of a natural number
DecimalDigit == <<"0", "1", "2", "3", "4", "5", "6", "7", "8", "9">>
RECURSIVE DecimalString(_)
DecimalString(n) ==
    IF n < 10 THEN DecimalDigit[n + 1]
    ELSE DecimalString(n \div 10) \o DecimalDigit[(n % 10) + 1]

\* magnitudes m (thousandths), m <= 120, ending in 5 whose double lies below
\* the decimal tie: 0.015 is 0.01499999999999999944...
DoubleBelowDisplayTie == {15, 45, 75, 105}

\* amount.toLocaleString('en-IN', {minimumFractionDigits: 2,
\* maximumFractionDigits: 2}): the double is rounded half away from zero to
\* hundredths, a negative amount keeps its sign; the en-IN digit grouping
\* starts at 1,000, above the modelled amounts
ToLocaleString(amount) ==
    LET magnitude == IF amount.v < 0 THEN 0 - amount.v ELSE amount.v
        hundredths ==
            IF magnitude % 10 > 5 \/ (magnitude % 10 = 5 /\ magnitude \notin DoubleBelowDisplayTie)
            THEN magnitude \div 10 + 1
            ELSE magnitude \div 10
    IN  (IF amount.v < 0 THEN "-" ELSE "")
            \o DecimalString(hundredths \div 100) \o "."
            \o DecimalDigit[((hundredths % 100) \div 10) + 1]
            \o DecimalDigit[(hundredths % 10) + 1]

\* formatCurrency(amount, currency = '₹'): an undefined second argument takes
\* the default symbol
formatCurrency(amount, currencyArgument) ==
    LET currency == IF currencyArgument = UndefinedValue THEN "₹" ELSE StringText
    IN  IF ~TypeofNumber(amount) \/ ~NumberIsFinite(amount)
        THEN ReturnString(currency \o "0.00")
        ELSE ReturnString(currency \o ToLocaleString(amount))

\* Math.round(percentage * 100) / 100 of percentage = (advance / total) * 100,
\* as a number of thousandths of a percent; no quotient in the modelled range
\* lies on a rounding tie
RoundedPercentage(total, advance) ==
    Num(((advance.v * 20000 + total.v) \div (2 * total.v)) * 10)

\* calculateAdvancePercentage without the guard of a zero total: 0 / 0 is NaN
calculateAdvancePercentageNoZeroGuard(totalMonthlySalary, advanceAmountPaid) ==
    LET valid == validateAdvanceAmount(totalMonthlySalary, advanceAmountPaid)
    IN  IF ~valid.ok THEN valid
        ELSE IF JsStrictEquals(totalMonthlySalary, Zero) THEN Return(NaN)
        ELSE Return(RoundedPercentage(totalMonthlySalary, advanceAmountPaid))

calculateAdvancePercentage(totalMonthlySalary, advanceAmountPaid) ==
    LET valid == validateAdvanceAmount(totalMonthlySalary, advanceAmountPaid)
    IN  IF ~valid.ok THEN valid
        ELSE IF JsStrictEquals(totalMonthlySalary, Zero) THEN Return(Zero)
        ELSE Return(RoundedPercentage(totalMonthlySalary, advanceAmountPaid))

(***************************************************************************)
(* components/SalaryTracker: the live calculation of the form.             *)
(***************************************************************************)
\* parseFloat(text) alone: empty or unparsable text stays NaN
ParseFloatOnly(text) ==
    IF text.kind \in {"num", "inf", "ninf"} THEN text ELSE NaN

\* parseFloat(text) || 0 : the text of a number parses to that number; empty
\* or unparsable text parses to NaN, and NaN and 0 are both replaced by 0
ParseFloatOrZero(text) ==
    IF text.kind \in {"inf", "ninf"} \/ (text.kind = "num" /\ text.v # 0)
    THEN text
    ELSE Zero

calculateRealTimeValues(totalText, advanceText) ==
    LET totalSalary == ParseFloatOrZero(totalText)
        advanceAmount == ParseFloatOrZero(advanceText)
        remainingSalary == JsMinus(totalSalary, advanceAmount)
        paymentStatus ==
            IF JsStrictEquals(remainingSalary, Zero) /\ JsGreater(totalSalary, Zero)
            THEN "Paid"
            ELSE IF JsGreater(advanceAmount, Zero) /\ JsGreater(remainingSalary, Zero)
            THEN "Partially Paid"
            ELSE "Pending"
    IN  IF JsLess(totalSalary, Zero) \/ JsLess(advanceAmount, Zero)
        THEN [ok |-> TRUE, num |-> Zero, str |-> "Invalid", err |-> ""]
        ELSE IF JsGreater(advanceAmount, totalSalary)
        THEN [ok |-> TRUE, num |-> Zero, str |-> "Invalid - Advance exceeds total", err |-> ""]
        ELSE [ok |-> TRUE, num |-> RoundToCents(remainingSalary), str |-> paymentStatus,
              err |-> ""]

(***************************************************************************)
(* Calls of the engine and of the live calculation on bounded operands.    *)
(***************************************************************************)
EngineOperands ==
    {Num(n) : n \in (0 - MaxNegative)..MaxAmount}
        \cup {NaN, PosInfinity, NegInfinity, StringValue, NullValue, UndefinedValue}

\* the requests the server handles at the same time
Clients == {1, 2}
NoDoc == [kind |-> "none"]
\* no operation has completed yet; the fields every event has: the operation,
\* the HTTP status (0: no answer yet), the body's field and error, whether the
\* handler called the engine, and the body's data, calculations, pagination
\* and summary
NoEvent ==
    [op |-> "none", status |-> 0, field |-> "", error |-> "", engine |-> FALSE,
     data |-> NoDoc, calculations |-> NoDoc, pagination |-> NoDoc, summary |-> NoDoc]

\* useState of deleteModal: the modal is closed; recordId null is not an _id
ModalClosed ==
    [isOpen |-> FALSE, recordId |-> [hex24 |-> FALSE, n |-> 0], employeeName |-> "",
     isDeleting |-> FALSE]
\* the component before its first fetch
BrowserIdle ==
    /\ salaryRecordsList = <<>>
    /\ deleteModal = ModalClosed

StoreIdle ==
    /\ BrowserIdle
    /\ db = {}
    /\ nextId = 0
    /\ pc = [c \in Clients |-> "idle"]
    /\ doc = [c \in Clients |-> NoDoc]
    /\ event = NoEvent

InitEngine ==
    /\ fn = "none"
    /\ argT \in EngineOperands
    /\ argA \in EngineOperands
    /\ ret = NoOutcome
    /\ StoreIdle

Called(name, outcome) ==
    /\ fn = "none"
    /\ fn' = name
    /\ ret' = outcome
    /\ UNCHANGED <<salaryRecordsList, deleteModal, argT, argA, db, nextId, pc, doc, event>>

CallCalculateRemainingSalary ==
    Called("calculateRemainingSalary", calculateRemainingSalary(argT, argA))
CallDeterminePaymentStatus ==
    Called("determinePaymentStatus", determinePaymentStatus(argT, argA))
CallValidateMonetaryAmount ==
    Called("validateMonetaryAmount", validateMonetaryAmount(argT, "amount"))
CallValidateAdvanceAmount ==
    Called("validateAdvanceAmount", validateAdvanceAmount(argT, argA))
CallCalculateSalaryDetails ==
    Called("calculateSalaryDetails", calculateSalaryDetails(argT, argA))
CallCalculateAdvancePercentage ==
    Called("calculateAdvancePercentage", calculateAdvancePercentage(argT, argA))
CallIsFullyPaid ==
    Called("isFullyPaid", isFullyPaid(argT, argA))
CallCalculateRealTimeValues ==
    Called("calculateRealTimeValues", calculateRealTimeValues(argT, argA))
\* the field name a caller passes to validateMonetaryAmount as a string
FieldNameText == "salary"
\* validateMonetaryAmount called with a field name
CallValidateMonetaryAmountFieldName ==
    /\ argA = StringValue
    /\ Called("validateMonetaryAmount(amount, fieldName)",
              validateMonetaryAmount(argT, FieldNameText))
\* the second argument of formatCurrency is left out or is a string
CallFormatCurrency ==
    /\ argA \in {UndefinedValue, StringValue}
    /\ Called("formatCurrency", formatCurrency(argT, argA))

NextEngine ==
    \/ CallCalculateRemainingSalary
    \/ CallDeterminePaymentStatus
    \/ CallValidateMonetaryAmount
    \/ CallValidateAdvanceAmount
    \/ CallCalculateSalaryDetails
    \/ CallCalculateAdvancePercentage
    \/ CallIsFullyPaid
    \/ CallCalculateRealTimeValues
    \/ CallFormatCurrency
    \/ CallValidateMonetaryAmountFieldName

SpecEngine == InitEngine /\ [][NextEngine]_vars

(***************************************************************************)
(* Claims about the engine, checked under SpecEngine.                      *)
(***************************************************************************)
\* a valid monetary amount: finite, non-negative, at most 2 decimals
TwoDecimalAmount(x) == x.kind = "num" /\ x.v >= 0 /\ x.v % 10 = 0
ValidPair == TwoDecimalAmount(argT) /\ TwoDecimalAmount(argA) /\ argA.v <= argT.v

\* C1: for valid amounts with 0 <= advance <= total, calculateRemainingSalary
\* returns total minus advance in minor units, a value in [0, total] that is
\* total when advance is 0 and 0 when advance equals total.
C1_RemainingIsDifference ==
    (fn = "calculateRemainingSalary" /\ ValidPair) =>
        /\ ret.ok
        /\ ret.num = Num(argT.v - argA.v)
        /\ 0 <= ret.num.v /\ ret.num.v <= argT.v
        /\ (argA.v = 0 => ret.num = argT)
        /\ (argA.v = argT.v => ret.num = Zero)
C1_Witness ==
    /\ fn = "calculateRemainingSalary"
    /\ argT = Num(30) /\ argA = Num(10)
    /\ ret = Return(Num(20))

C3_ResultWithinTotal ==
    (fn = "calculateSalaryDetails" /\ ret.ok) =>
        LET t == ret.totalMonthlySalary.v
            a == ret.advanceAmountPaid.v
            r == ret.remainingSalaryPayable.v
        IN  /\ a + r - t <= 10 /\ t - (a + r) <= 10
            /\ 0 <= a /\ a <= t
            /\ 0 <= r /\ r <= t

\* the inputs C4 names: a negative total, a negative advance, an advance above
\* the total, or an operand that is a string, null, undefined or NaN
NotNumeric(x) == x.kind \in {"string", "null", "undefined", "nan"}
InvalidInput ==
    \/ NotNumeric(argT) \/ NotNumeric(argA)
    \/ JsLess(argT, Zero) \/ JsLess(argA, Zero)
    \/ JsGreater(argA, argT)

\* C4: on every such input each of the six operations fails and returns nothing.
C4_InvalidInputFails ==
    (/\ fn \in {"calculateRemainingSalary", "determinePaymentStatus",
                "validateAdvanceAmount", "calculateSalaryDetails",
                "calculateAdvancePercentage", "isFullyPaid"}
     /\ InvalidInput) => ~ret.ok

\* C9: calculateSalaryDetails fails or returns the inputs with the values of
\* calculateRemainingSalary and determinePaymentStatus, and neither of these
\* two fails on an input that validateAdvanceAmount accepts.
C9_CompleteResult ==
    LET remaining == calculateRemainingSalary(argT, argA)
        status == determinePaymentStatus(argT, argA)
    IN  fn = "calculateSalaryDetails" =>
            /\ ret.ok =>
                /\ ret.totalMonthlySalary = argT
                /\ ret.advanceAmountPaid = argA
                /\ remaining.ok /\ ret.remainingSalaryPayable = remaining.num
                /\ status.ok /\ ret.paymentStatus = status.str
            /\ validateAdvanceAmount(argT, argA).ok =>
                remaining.ok /\ status.ok /\ ret.ok
C9_Witness ==
    /\ fn = "calculateSalaryDetails"
    /\ argT = Num(30) /\ argA = Num(10)
    /\ ret = SalaryDetails(Num(30), Num(10), Num(20), "Partially Paid")

\* C10: validateMonetaryAmount accepts every finite non-negative amount with at
\* most 2 decimals and rejects, with the 'at most 2 decimal places' error,
\* every finite non-negative amount with a non-zero third decimal.
C10_ThreeDecimalsRejected ==
    (fn = "validateMonetaryAmount" /\ argT.kind = "num" /\ argT.v >= 0) =>
        /\ argT.v % 10 = 0 => ret = ReturnTrue
        /\ argT.v % 10 # 0 => ret = Throw("amount must have at most 2 decimal places")

\* C6: for amounts with 0 <= advance <= total the live calculation shows the
\* remaining amount and the status the engine computes, total = 0 and
\* advance = 0 included.
C6_LiveMatchesEngine ==
    (/\ fn = "calculateRealTimeValues"
     /\ argT.kind = "num" /\ argA.kind = "num"
     /\ 0 <= argA.v /\ argA.v <= argT.v) =>
        /\ ret.num = calculateRemainingSalary(argT, argA).num
        /\ ret.str = determinePaymentStatus(argT, argA).str

(***************************************************************************)
(* models/SalaryRecord: the schema, its validators and its save hooks.     *)
(***************************************************************************)
MonthNames ==
    <<"January", "February", "March", "April", "May", "June",
      "July", "August", "September", "October", "November", "December">>
MonthNameSet == {MonthNames[i] : i \in 1..12}

\* trim: true on the string paths; the strings of the model carry at most one
\* trailing blank
Trim(s) == CASE s = "E1 " -> "E1" [] s = " " -> "" [] OTHER -> s

\* 2-decimal amounts v (thousandths), 0 <= v <= 130, for which the double
\* value * 100 is not the integer Math.round(value * 100): 0.07 * 100 is
\* 7.000000000000001
DoubleProductInexact == {70}

\* Number.isFinite(value) && Math.round(value * 100) === value * 100
MonetaryValidator(value) ==
    /\ NumberIsFinite(value)
    /\ value.v % 10 = 0
    /\ value.v \notin DoubleProductInexact

\* a Number path holding a monetary amount: required, cast to Number (a
\* string, null, undefined or NaN does not pass), min 0, the validator
MonetaryPathValid(value) ==
    /\ TypeofNumber(value) /\ value.kind # "nan"
    /\ ~JsLess(value, Zero)
    /\ MonetaryValidator(value)

\* value <= this.totalMonthlySalary
AdvanceWithinTotal(value, total) == JsLess(value, total) \/ JsStrictEquals(value, total)

\* the schema validators of totalMonthlySalary and advanceAmountPaid accept
\* the pair
SchemaAcceptsPair(total, advance) ==
    /\ MonetaryPathValid(total)
    /\ MonetaryPathValid(advance)
    /\ AdvanceWithinTotal(advance, total)

\* new SalaryRecord(data): the string paths are trimmed and paymentStatus takes
\* its default when none is given; the document has no _id in the store yet
NewSalaryRecord(data) ==
    [id |-> 0,
     employeeId |-> Trim(data.employeeId),
     employeeName |-> Trim(data.employeeName),
     month |-> data.month,
     year |-> data.year,
     totalMonthlySalary |-> data.totalMonthlySalary,
     advanceAmountPaid |-> data.advanceAmountPaid,
     remainingSalaryPayable |-> data.remainingSalaryPayable,
     paymentDate |-> data.paymentDate,
     paymentStatus |-> IF data.paymentStatus = "" THEN "Pending" ELSE data.paymentStatus]

\* the paths of a document that fail validation (ValidationError.errors);
\* paymentDate is "" when absent and "2099-01-01" lies more than a year ahead
ValidationErrors(d) ==
    {f \in {"employeeId", "employeeName", "month", "year", "totalMonthlySalary",
            "advanceAmountPaid", "remainingSalaryPayable", "paymentDate", "paymentStatus"} :
        CASE f = "employeeId" -> d.employeeId = ""
          [] f = "employeeName" -> d.employeeName = ""
          [] f = "month" -> d.month \notin MonthNameSet
          [] f = "year" -> d.year < 2000 \/ d.year > 2100
          [] f = "totalMonthlySalary" -> ~MonetaryPathValid(d.totalMonthlySalary)
          [] f = "advanceAmountPaid" ->
                \/ ~MonetaryPathValid(d.advanceAmountPaid)
                \/ ~AdvanceWithinTotal(d.advanceAmountPaid, d.totalMonthlySalary)
          [] f = "remainingSalaryPayable" -> ~MonetaryPathValid(d.remainingSalaryPayable)
          [] f = "paymentDate" -> d.paymentDate \in {"", "2099-01-01"}
          [] OTHER -> d.paymentStatus \notin {"Pending", "Partially Paid", "Paid"}}

\* calculateDerivedFields that leaves the derived fields as the caller set them
calculateDerivedFieldsKeepsSupplied(d) == [ok |-> TRUE, doc |-> d, err |-> ""]

\* calculateDerivedFields: both derived fields are overwritten from the
\* document's total and advance, or the engine's error is thrown
calculateDerivedFields(d) ==
    LET remaining == calculateRemainingSalary(d.totalMonthlySalary, d.advanceAmountPaid)
        status == determinePaymentStatus(d.totalMonthlySalary, d.advanceAmountPaid)
    IN  IF ~remaining.ok THEN [ok |-> FALSE, doc |-> d, err |-> remaining.err]
        ELSE IF ~status.ok THEN [ok |-> FALSE, doc |-> d, err |-> status.err]
        ELSE [ok |-> TRUE,
              doc |-> [d EXCEPT !.remainingSalaryPayable = remaining.num,
                                !.paymentStatus = status.str],
              err |-> ""]

\* the part of save() that runs on the document alone, before the write is
\* sent: validation, then the pre('save') hook
PrepareSave(d) ==
    IF ValidationErrors(d) # {}
    THEN [ok |-> FALSE, name |-> "ValidationError", doc |-> d]
    ELSE LET hook == calculateDerivedFields(d)
         IN  IF hook.ok THEN [ok |-> TRUE, name |-> "", doc |-> hook.doc]
             ELSE [ok |-> FALSE, name |-> "Error", doc |-> d]

\* post('init'): a document loaded from the store has its derived fields
\* recalculated in memory
LoadDocument(r) ==
    LET hook == calculateDerivedFields(r)
    IN  IF hook.ok THEN hook.doc ELSE r

\* the unique index on (employeeId, year, month)
SameKey(d, r) == d.employeeId = r.employeeId /\ d.year = r.year /\ d.month = r.month
DuplicateKey(d, store) == \E r \in store : SameKey(d, r)

\* an insert into a collection whose index is not unique
InsertOneNoUniqueIndex(d, store, ids) ==
    [ok |-> TRUE, store |-> store \cup {[d EXCEPT !.id = ids + 1]}, ids |-> ids + 1]

\* an insert that replaces the stored document of the same key
InsertOneUpsert(d, store, ids) ==
    [ok |-> TRUE,
     store |-> {r \in store : ~SameKey(d, r)} \cup {[d EXCEPT !.id = ids + 1]},
     ids |-> ids + 1]

\* insertOne: the document is stored under a fresh _id, or the write fails
\* with the duplicate key error (code 11000) and stores nothing
InsertOne(d, store, ids) ==
    IF DuplicateKey(d, store)
    THEN [ok |-> FALSE, store |-> store, ids |-> ids]
    ELSE [ok |-> TRUE, store |-> store \cup {[d EXCEPT !.id = ids + 1]}, ids |-> ids + 1]

(***************************************************************************)
(* routes/salary.js: the request handlers.  A handler runs up to its next  *)
(* await of the store in one step; what save() does on the document alone  *)
(* (validation, pre('save') hook) belongs to the step that ends at the     *)
(* await of the insert.                                                    *)
(***************************************************************************)
Response(op, status, field, error) ==
    [NoEvent EXCEPT !.op = op, !.status = status, !.field = field, !.error = error]

\* an answer sent after the handler called calculateSalaryDetails
AfterEngine(response) == [response EXCEPT !.engine = TRUE]

\* the values request bodies carry, field by field: employeeId and
\* employeeName "" stand for a missing or empty string, paymentDate "" for a
\* missing one; RequestBodies serves the handlers running side by side,
\* SequentialBodies the single requests between direct saves
RequestBodies ==
    [employeeIds |-> {"E1 ", ""},
     employeeNames |-> {"Ann", ""},
     months |-> {1, 2, 13},
     years |-> {1899, 1950, 2024},
     totals |-> {Num(10), Num(70), StringValue},
     advances |-> {Num(0), Num(20), StringValue},
     paymentDates |-> {"", "not-a-date", "2024-01-15"}]
SequentialBodies ==
    [employeeIds |-> {"E1 "},
     employeeNames |-> {"Ann"},
     months |-> {1, 2},
     years |-> {2024},
     totals |-> {Num(10)},
     advances |-> {Num(0), Num(20)},
     paymentDates |-> {"2024-01-15", "2099-01-01"}]

\* the handler answers at once and touches nothing else
RespondNow(response) ==
    /\ event' = response
    /\ UNCHANGED <<salaryRecordsList, deleteModal, fn, argT, argA, ret, db, nextId, pc, doc>>

\* a handler whose catch has no branch for ValidationError: a document that
\* fails schema validation is answered like any other error
PostCreateRecordNoValidationBranch(c, body, salaryDetails) ==
    LET salaryRecordData ==
            [employeeId |-> body.employeeId,
             employeeName |-> body.employeeName,
             month |-> MonthNames[body.month],
             year |-> body.year,
             totalMonthlySalary |-> salaryDetails.totalMonthlySalary,
             advanceAmountPaid |-> salaryDetails.advanceAmountPaid,
             remainingSalaryPayable |-> salaryDetails.remainingSalaryPayable,
             paymentDate |-> body.paymentDate,
             paymentStatus |-> salaryDetails.paymentStatus]
        prepared == PrepareSave(NewSalaryRecord(salaryRecordData))
    IN  IF prepared.ok
        THEN /\ pc' = [pc EXCEPT ![c] = "save"]
             /\ doc' = [doc EXCEPT ![c] = [kind |-> "post", body |-> body,
                                           salaryDetails |-> salaryDetails,
                                           record |-> prepared.doc]]
             /\ event' = AfterEngine(Response("POST /addSalary", 0, "", ""))
             /\ UNCHANGED <<salaryRecordsList, deleteModal, fn, argT, argA, ret, db, nextId>>
        ELSE RespondNow(AfterEngine(Response("POST /addSalary", 500, "", "Internal server error")))

\* the handler of POST /addSalary from salaryDetails on: salaryRecordData, new
\* SalaryRecord, and save() up to the insert; at the await the handler holds
\* the request body, salaryDetails and the document
PostCreateRecord(c, body, salaryDetails) ==
    LET salaryRecordData ==
            [employeeId |-> body.employeeId,
             employeeName |-> body.employeeName,
             month |-> MonthNames[body.month],
             year |-> body.year,
             totalMonthlySalary |-> salaryDetails.totalMonthlySalary,
             advanceAmountPaid |-> salaryDetails.advanceAmountPaid,
             remainingSalaryPayable |-> salaryDetails.remainingSalaryPayable,
             paymentDate |-> body.paymentDate,
             paymentStatus |-> salaryDetails.paymentStatus]
        prepared == PrepareSave(NewSalaryRecord(salaryRecordData))
    IN  IF prepared.ok
        THEN /\ pc' = [pc EXCEPT ![c] = "save"]
             /\ doc' = [doc EXCEPT ![c] = [kind |-> "post", body |-> body,
                                           salaryDetails |-> salaryDetails,
                                           record |-> prepared.doc]]
             /\ event' = AfterEngine(Response("POST /addSalary", 0, "", ""))
             /\ UNCHANGED <<salaryRecordsList, deleteModal, fn, argT, argA, ret, db, nextId>>
        ELSE IF prepared.name = "ValidationError"
        THEN RespondNow(AfterEngine(Response("POST /addSalary", 400, "", "Validation failed")))
        ELSE RespondNow(AfterEngine(Response("POST /addSalary", 500, "", "Internal server error")))

\* POST /addSalary up to the await of the insert.  The body's fields are
\* drawn in the order the handler checks them: after a failed check the
\* handler has returned and reads no further field.
PostAddSalary(c, bodies) ==
    /\ pc[c] = "idle"
    /\ \E employeeId \in bodies.employeeIds :
        IF employeeId = ""
        THEN RespondNow(Response("POST /addSalary", 400, "employeeId",
                                 "Employee ID is required and must be a string"))
        ELSE \E employeeName \in bodies.employeeNames :
        IF employeeName = ""
        THEN RespondNow(Response("POST /addSalary", 400, "employeeName",
                                 "Employee name is required and must be a string"))
        ELSE \E month \in bodies.months :
        IF month = 0 \/ month < 1 \/ month > 12
        THEN RespondNow(Response("POST /addSalary", 400, "month",
                                 "Month is required and must be a number between 1 and 12"))
        ELSE \E year \in bodies.years :
        IF year = 0 \/ year < 1900 \/ year > 2100
        THEN RespondNow(Response("POST /addSalary", 400, "year",
                                 "Year is required and must be a valid year"))
        ELSE \E totalMonthlySalary \in bodies.totals :
        IF ~TypeofNumber(totalMonthlySalary)
        THEN RespondNow(Response("POST /addSalary", 400, "totalMonthlySalary",
                                 "Total monthly salary is required and must be a number"))
        ELSE \E advanceAmountPaid \in bodies.advances :
        IF ~TypeofNumber(advanceAmountPaid)
        THEN RespondNow(Response("POST /addSalary", 400, "advanceAmountPaid",
                                 "Advance amount paid is required and must be a number"))
        ELSE \E paymentDate \in bodies.paymentDates :
        IF paymentDate = ""
        THEN RespondNow(Response("POST /addSalary", 400, "paymentDate",
                                 "Payment date is required"))
        ELSE IF paymentDate = "not-a-date"
        THEN RespondNow(Response("POST /addSalary", 400, "paymentDate",
                                 "Payment date must be a valid ISO date string"))
        ELSE LET salaryDetails == calculateSalaryDetails(totalMonthlySalary, advanceAmountPaid)
             IN  IF ~salaryDetails.ok
                 THEN RespondNow(AfterEngine(Response("POST /addSalary", 400,
                                                      "salary_calculation", salaryDetails.err)))
                 ELSE PostCreateRecord(c,
                                       [employeeId |-> employeeId,
                                        employeeName |-> employeeName,
                                        month |-> month,
                                        year |-> year,
                                        totalMonthlySalary |-> totalMonthlySalary,
                                        advanceAmountPaid |-> advanceAmountPaid,
                                        paymentDate |-> paymentDate],
                                       salaryDetails)

\* res.status(201).json({message, data, calculations}): data is read from
\* savedRecord, calculations from salaryDetails
CreatedResponse(savedRecord, salaryDetails) ==
    [AfterEngine(Response("POST /addSalary", 201, "", "")) EXCEPT
        !.data = savedRecord,
        !.calculations = [remainingSalary |-> salaryDetails.remainingSalaryPayable,
                          paymentStatus |-> salaryDetails.paymentStatus]]

\* POST /addSalary from the insert on: the record is stored and 201 sent, or
\* the duplicate key error is caught and 400 sent
PostInsert(c) ==
    /\ pc[c] = "save"
    /\ LET written == InsertOne(doc[c].record, db, nextId)
       IN  /\ written.ok => nextId < MaxId
           /\ db' = written.store
           /\ nextId' = written.ids
           /\ event' = IF written.ok
                       THEN CreatedResponse([doc[c].record EXCEPT !.id = written.ids],
                                            doc[c].salaryDetails)
                       ELSE AfterEngine(Response("POST /addSalary", 400, "duplicate_record",
                                     "A salary record for this employee and month/year already exists"))
    /\ pc' = [pc EXCEPT ![c] = "idle"]
    /\ doc' = [doc EXCEPT ![c] = NoDoc]
    /\ UNCHANGED <<salaryRecordsList, deleteModal, fn, argT, argA, ret>>

\* POST /addSalary when save() rejects with an error that is neither a
\* ValidationError nor a duplicate key error (the store cannot be reached)
PostStoreFailure(c) ==
    /\ pc[c] = "save"
    /\ event' = AfterEngine(Response("POST /addSalary", 500, "", "Internal server error"))
    /\ pc' = [pc EXCEPT ![c] = "idle"]
    /\ doc' = [doc EXCEPT ![c] = NoDoc]
    /\ UNCHANGED <<salaryRecordsList, deleteModal, fn, argT, argA, ret, db, nextId>>

\* the :id parameter: a string of 24 hex digits naming the n-th _id, or not
IdParams == {[hex24 |-> FALSE, n |-> 0]} \cup {[hex24 |-> TRUE, n |-> i] : i \in 1..MaxId}

\* GET /salaries/:id on a store
GetSalaryById(store, id) ==
    IF ~id.hex24
    THEN Response("GET /salaries/:id", 400, "id",
                  "Invalid ID format. Must be a valid MongoDB ObjectId")
    ELSE IF ~(\E r \in store : r.id = id.n)
    THEN Response("GET /salaries/:id", 404, "", "Salary record not found")
    ELSE [Response("GET /salaries/:id", 200, "", "") EXCEPT
            !.data = CHOOSE r \in store : r.id = id.n]

\* DELETE /salaries/:id up to the await of findByIdAndDelete, for an :id out
\* of params
DeleteSalary(c, params) ==
    /\ pc[c] = "idle"
    /\ \E id \in params :
        IF ~id.hex24
        THEN RespondNow(Response("DELETE /salaries/:id", 400, "id",
                                 "Invalid ID format. Must be a valid MongoDB ObjectId"))
        ELSE IF ~(\E r \in db : r.id = id.n)
        THEN RespondNow(Response("DELETE /salaries/:id", 404, "", "Salary record not found"))
        ELSE /\ pc' = [pc EXCEPT ![c] = "delete"]
             /\ doc' = [doc EXCEPT ![c] = CHOOSE r \in db : r.id = id.n]
             /\ event' = Response("DELETE /salaries/:id", 0, "", "")
             /\ UNCHANGED <<salaryRecordsList, deleteModal, fn, argT, argA, ret, db, nextId>>

\* the deletedRecord of the 200 answer (deletedAt, the clock reading, is not
\* part of the model)
DeletedRecord(salaryRecord) ==
    [id |-> salaryRecord.id,
     employeeId |-> salaryRecord.employeeId,
     employeeName |-> salaryRecord.employeeName,
     month |-> salaryRecord.month,
     year |-> salaryRecord.year,
     totalMonthlySalary |-> salaryRecord.totalMonthlySalary]

\* a delete that removes every record of the employee (deleteMany)
DeleteRemoveEmployee(c) ==
    /\ pc[c] = "delete"
    /\ db' = {r \in db : r.employeeId # doc[c].employeeId}
    /\ event' = [Response("DELETE /salaries/:id", 200, "", "") EXCEPT
                    !.data = DeletedRecord(doc[c])]
    /\ pc' = [pc EXCEPT ![c] = "idle"]
    /\ doc' = [doc EXCEPT ![c] = NoDoc]
    /\ UNCHANGED <<salaryRecordsList, deleteModal, fn, argT, argA, ret, nextId>>

\* DELETE /salaries/:id from findByIdAndDelete on: its result is not looked at
DeleteRemove(c) ==
    /\ pc[c] = "delete"
    /\ db' = {r \in db : r.id # doc[c].id}
    /\ event' = [Response("DELETE /salaries/:id", 200, "", "") EXCEPT
                    !.data = DeletedRecord(doc[c])]
    /\ pc' = [pc EXCEPT ![c] = "idle"]
    /\ doc' = [doc EXCEPT ![c] = NoDoc]
    /\ UNCHANGED <<salaryRecordsList, deleteModal, fn, argT, argA, ret, nextId>>

(***************************************************************************)
(* Documents saved and updated directly through the model, as the model's  *)
(* tests do.                                                               *)
(***************************************************************************)
\* the fields a caller passes to new SalaryRecord(...); remainingSalaryPayable
\* and paymentStatus may be left out (undefined, "") or set to anything
DirectMonths == {"January", "February"}
DirectTotals == {Num(20)}
DirectAdvances == {Num(0), Num(10), Num(30)}
DirectRemainings == {UndefinedValue, Num(0), Num(-10)}
DirectStatuses == {"", "Paid", "Bogus"}
UpdateAmounts == {Num(-10), Num(0), Num(10), Num(11), Num(20)}

\* save() of a newly constructed document
SaveNew(document) ==
    LET prepared == PrepareSave(document)
        written == InsertOne(prepared.doc, db, nextId)
    IN  IF ~prepared.ok
        THEN RespondNow(Response("save", 0, "", prepared.name))
        ELSE /\ written.ok => nextId < MaxId
             /\ db' = written.store
             /\ nextId' = written.ids
             /\ event' = Response("save", 0, "", IF written.ok THEN "" ELSE "E11000")
             /\ UNCHANGED <<salaryRecordsList, deleteModal, fn, argT, argA, ret, pc, doc>>

\* the data a caller passes to new SalaryRecord(...)
DirectData ==
    {[employeeId |-> "E1", employeeName |-> "Ann", month |-> month,
      year |-> 2024, totalMonthlySalary |-> total,
      advanceAmountPaid |-> advance, remainingSalaryPayable |-> remaining,
      paymentDate |-> "2024-01-15", paymentStatus |-> status] :
        month \in DirectMonths, total \in DirectTotals, advance \in DirectAdvances,
        remaining \in DirectRemainings, status \in DirectStatuses}

\* new SalaryRecord(data).save()
DirectSave == \E data \in DirectData : SaveNew(NewSalaryRecord(data))

\* document.updateAdvancePayment(newAdvanceAmount) up to the write of save():
\* the error thrown or the document to write, and the document in memory
updateAdvancePayment(document, newAdvanceAmount) ==
    LET changed == [document EXCEPT !.advanceAmountPaid = newAdvanceAmount]
        prepared == PrepareSave(changed)
    IN  IF JsLess(newAdvanceAmount, Zero)
        THEN [ok |-> FALSE, err |-> "Advance amount cannot be negative", doc |-> document]
        ELSE IF JsGreater(newAdvanceAmount, document.totalMonthlySalary)
        THEN [ok |-> FALSE, err |-> "Advance amount cannot exceed total salary",
              doc |-> document]
        ELSE IF ~prepared.ok
        THEN [ok |-> FALSE, err |-> prepared.name, doc |-> changed]
        ELSE [ok |-> TRUE, err |-> "", doc |-> prepared.doc]

\* findById(id), then updateAdvancePayment(newAdvanceAmount) on the document
UpdateAdvancePayment ==
    \E r \in db, newAdvanceAmount \in UpdateAmounts :
        LET updated == updateAdvancePayment(LoadDocument(r), newAdvanceAmount)
        IN  IF ~updated.ok
            THEN RespondNow(Response("updateAdvancePayment", 0, "", updated.err))
            ELSE /\ db' = (db \ {r}) \cup {updated.doc}
                 /\ event' = Response("updateAdvancePayment", 0, "", "")
                 /\ UNCHANGED <<salaryRecordsList, deleteModal, fn, argT, argA, ret, nextId, pc, doc>>

\* findById(id), then save() of the unchanged document
ReSave ==
    \E r \in db :
        LET prepared == PrepareSave(LoadDocument(r))
        IN  IF ~prepared.ok
            THEN RespondNow(Response("save", 0, "", prepared.name))
            ELSE /\ db' = (db \ {r}) \cup {prepared.doc}
                 /\ event' = Response("save", 0, "", "resaved")
                 /\ UNCHANGED <<salaryRecordsList, deleteModal, fn, argT, argA, ret, nextId, pc, doc>>

InitStore ==
    /\ fn = "none"
    /\ argT = Zero
    /\ argA = Zero
    /\ ret = NoOutcome
    /\ StoreIdle

\* the request handlers, running side by side
NextApi ==
    \/ \E c \in Clients : PostAddSalary(c, RequestBodies)
    \/ \E c \in Clients : PostInsert(c)
    \/ \E c \in Clients : DeleteSalary(c, IdParams)
    \/ \E c \in Clients : DeleteRemove(c)

SpecApi == InitStore /\ [][NextApi]_vars

\* documents saved, updated and saved again directly, between requests that
\* are handled one at a time
NextRecords ==
    \/ PostAddSalary(1, SequentialBodies)
    \/ PostInsert(1)
    \/ DeleteSalary(1, IdParams)
    \/ DeleteRemove(1)
    \/ DirectSave
    \/ UpdateAdvancePayment
    \/ ReSave

SpecRecords == InitStore /\ [][NextRecords]_vars

(***************************************************************************)
(* Single requests whose whole body is known before the handler runs: the  *)
(* request arrives (the event holds its body), then the handler reads it.  *)
(***************************************************************************)
\* the values of each field of the bodies that arrive; any combination of
\* them can arrive
ArrivingBodies ==
    [employeeIds |-> {"E1 ", ""},
     employeeNames |-> {"Ann", ""},
     months |-> {1, 2, 13},
     years |-> {1950, 2024, 2101},
     totals |-> {Num(10), Num(70), StringValue},
     advances |-> {Num(0), Num(10), Num(20), StringValue},
     paymentDates |-> {"", "not-a-date", "2024-01-15"}]

\* req.body of a request that has arrived
Request(op, body) == [Response(op, 0, "", "") EXCEPT !.data = body]

\* the field domains that hold exactly the fields of one body
OnlyBody(body) ==
    [employeeIds |-> {body.employeeId},
     employeeNames |-> {body.employeeName},
     months |-> {body.month},
     years |-> {body.year},
     totals |-> {body.totalMonthlySalary},
     advances |-> {body.advanceAmountPaid},
     paymentDates |-> {body.paymentDate}]

\* a POST /addSalary request arrives
ReceivePost ==
    /\ pc[1] = "idle"
    /\ event.op # "request POST /addSalary"
    /\ \E employeeId \in ArrivingBodies.employeeIds,
          employeeName \in ArrivingBodies.employeeNames,
          month \in ArrivingBodies.months,
          year \in ArrivingBodies.years,
          totalMonthlySalary \in ArrivingBodies.totals,
          advanceAmountPaid \in ArrivingBodies.advances,
          paymentDate \in ArrivingBodies.paymentDates :
            event' = Request("request POST /addSalary",
                             [employeeId |-> employeeId,
                              employeeName |-> employeeName,
                              month |-> month,
                              year |-> year,
                              totalMonthlySalary |-> totalMonthlySalary,
                              advanceAmountPaid |-> advanceAmountPaid,
                              paymentDate |-> paymentDate])
    /\ UNCHANGED <<salaryRecordsList, deleteModal, fn, argT, argA, ret, db, nextId, pc, doc>>

\* the handler of POST /addSalary runs on the body that arrived
HandlePost ==
    /\ event.op = "request POST /addSalary"
    /\ PostAddSalary(1, OnlyBody(event.data))

NextRequest ==
    \/ ReceivePost
    \/ HandlePost
    \/ PostInsert(1)
    \/ PostStoreFailure(1)

SpecRequest == InitStore /\ [][NextRequest]_vars

\* the presence and type checks of the handler, all passed by a body
PassesFieldChecks(body) ==
    /\ body.employeeId # ""
    /\ body.employeeName # ""
    /\ body.month >= 1 /\ body.month <= 12
    /\ body.year >= 1900 /\ body.year <= 2100
    /\ TypeofNumber(body.totalMonthlySalary)
    /\ TypeofNumber(body.advanceAmountPaid)
    /\ body.paymentDate \notin {"", "not-a-date"}

\* the document the handler builds from a body the engine accepted
RecordOfBody(body) ==
    LET salaryDetails == calculateSalaryDetails(body.totalMonthlySalary, body.advanceAmountPaid)
    IN  NewSalaryRecord([employeeId |-> body.employeeId,
                         employeeName |-> body.employeeName,
                         month |-> MonthNames[body.month],
                         year |-> body.year,
                         totalMonthlySalary |-> salaryDetails.totalMonthlySalary,
                         advanceAmountPaid |-> salaryDetails.advanceAmountPaid,
                         remainingSalaryPayable |-> salaryDetails.remainingSalaryPayable,
                         paymentDate |-> body.paymentDate,
                         paymentStatus |-> salaryDetails.paymentStatus])

FailuresAnswered ==
    event.op = "request POST /addSalary" =>
        LET body == event.data
            engine == calculateSalaryDetails(body.totalMonthlySalary, body.advanceAmountPaid)
        IN  /\ event'.engine => PassesFieldChecks(body)
            /\ ~PassesFieldChecks(body) => event'.status = 400 /\ event'.field # ""
            /\ (PassesFieldChecks(body) /\ ~engine.ok) =>
                    /\ event'.status = 400
                    /\ event'.error = engine.err
                    /\ event'.field # ""
            /\ (PassesFieldChecks(body) /\ engine.ok /\ ValidationErrors(RecordOfBody(body)) # {})
                    => event'.status = 400

ServerErrorOnlyAtSave ==
    (event'.op = "POST /addSalary" /\ event'.status = 500) =>
        /\ pc[1] = "save"
        /\ ValidationErrors(doc[1].record) = {}
        /\ event'.error # "A salary record for this employee and month/year already exists"
        /\ db' = db

\* C13: on POST /addSalary the engine is called only after every presence and
\* type check passed; an engine failure is answered 400 with the engine's
\* message and a field tag, a failed presence or type check 400 with a field
\* tag, a schema validation failure 400, and 500 is answered only when save()
\* fails on a valid document with an error that is not the duplicate key error.
C13_FailuresMapped == [][FailuresAnswered /\ ServerErrorOnlyAtSave]_vars

\* the engine rejected an advance above the total of a body that passed every
\* check of the handler
C13_Witness ==
    /\ event.op = "POST /addSalary" /\ event.status = 400
    /\ event.field = "salary_calculation" /\ event.engine
    /\ event.error = "Advance amount cannot exceed total monthly salary"

\* C14: a POST /addSalary whose year lies outside 2000..2100 (its employeeId,
\* employeeName and month being valid) is answered 400 with field 'year' and
\* the error that a valid year is required, and stores nothing.
C14_InvalidYearRejected ==
    [][(/\ event.op = "request POST /addSalary"
        /\ event.data.employeeId # "" /\ event.data.employeeName # ""
        /\ event.data.month \in 1..12
        /\ (event.data.year < 2000 \/ event.data.year > 2100)) =>
            /\ event'.status = 400
            /\ event'.field = "year"
            /\ event'.error = "Year is required and must be a valid year"
            /\ db' = db]_vars

\* C15: every 201 answer of POST /addSalary is consistent: data's remaining
\* amount and status equal those of calculations, the status is one of the
\* three, data echoes the submitted employeeId, year, total and advance, and
\* data.month is the name at position month - 1 of January..December.
C15_CreatedAnswerConsistent ==
    [][(pc[1] = "save" /\ event'.op = "POST /addSalary" /\ event'.status = 201) =>
        LET body == doc[1].body
            data == event'.data
            calculations == event'.calculations
        IN  /\ data.remainingSalaryPayable = calculations.remainingSalary
            /\ data.paymentStatus = calculations.paymentStatus
            /\ data.paymentStatus \in {"Pending", "Partially Paid", "Paid"}
            /\ data.employeeId = body.employeeId
            /\ data.year = body.year
            /\ data.totalMonthlySalary = body.totalMonthlySalary
            /\ data.advanceAmountPaid = body.advanceAmountPaid
            /\ data.month = MonthNames[body.month]]_vars

(***************************************************************************)
(* Documents constructed first (the event holds the new document) and saved *)
(* afterwards, as the tests of the model do.                               *)
(***************************************************************************)
\* const salaryRecord = new SalaryRecord(recordData)
ConstructDocument ==
    /\ event.op # "new SalaryRecord"
    /\ \E data \in DirectData :
        event' = Request("new SalaryRecord", NewSalaryRecord(data))
    /\ UNCHANGED <<salaryRecordsList, deleteModal, fn, argT, argA, ret, db, nextId, pc, doc>>

\* await salaryRecord.save()
SaveConstructed ==
    /\ event.op = "new SalaryRecord"
    /\ SaveNew(event.data)

NextModel ==
    \/ ConstructDocument
    \/ SaveConstructed
    \/ UpdateAdvancePayment
    \/ ReSave

SpecModel == InitStore /\ [][NextModel]_vars

\* C16: saving a new SalaryRecord built from valid input fields alone, with no
\* remainingSalaryPayable and no paymentStatus supplied, succeeds and stores
\* the record with remainingSalaryPayable = total - advance and the status
\* derived from it; re-saving a retrieved record leaves the stored values
\* unchanged.
C16_SaveFromInputsAlone ==
    [][/\ (/\ event.op = "new SalaryRecord"
           /\ event.data.remainingSalaryPayable = UndefinedValue
           /\ event.data.paymentStatus = "Pending"
           /\ SchemaAcceptsPair(event.data.totalMonthlySalary, event.data.advanceAmountPaid)
           /\ ~DuplicateKey(event.data, db)
           /\ nextId < MaxId) =>
              /\ event'.op = "save" /\ event'.error = ""
              /\ \E r \in db' \ db :
                    /\ r.totalMonthlySalary = event.data.totalMonthlySalary
                    /\ r.advanceAmountPaid = event.data.advanceAmountPaid
                    /\ r.remainingSalaryPayable =
                          Num(r.totalMonthlySalary.v - r.advanceAmountPaid.v)
                    /\ r.paymentStatus =
                          determinePaymentStatus(r.totalMonthlySalary, r.advanceAmountPaid).str
       /\ (event'.op = "save" /\ event'.error = "resaved") => db' = db]_vars

(***************************************************************************)
(* updateAdvancePayment on a document that was loaded from the store and   *)
(* stays in the caller's hands.                                            *)
(***************************************************************************)
\* the records in the store before the updates
UpdatedData ==
    <<[employeeId |-> "E1", employeeName |-> "Ann", month |-> "January", year |-> 2024,
       totalMonthlySalary |-> Num(80), advanceAmountPaid |-> Num(0),
       remainingSalaryPayable |-> Num(80), paymentDate |-> "2024-01-15",
       paymentStatus |-> ""],
      [employeeId |-> "E2", employeeName |-> "Bob", month |-> "January", year |-> 2024,
       totalMonthlySalary |-> Num(20), advanceAmountPaid |-> Num(10),
       remainingSalaryPayable |-> Num(10), paymentDate |-> "2024-01-15",
       paymentStatus |-> ""]>>

\* the newAdvanceAmount arguments
UpdateArguments ==
    {Num(-10), Num(0), Num(11), Num(20), Num(40), Num(70), Num(80), Num(90), NaN}

InitUpdate ==
    LET first == InsertOne(PrepareSave(NewSalaryRecord(UpdatedData[1])).doc, {}, 0)
        second == InsertOne(PrepareSave(NewSalaryRecord(UpdatedData[2])).doc,
                            first.store, first.ids)
    IN  /\ fn = "none"
        /\ argT = Zero
        /\ argA = Zero
        /\ ret = NoOutcome
        /\ db = second.store
        /\ nextId = second.ids
        /\ pc = [c \in Clients |-> "idle"]
        /\ doc = [c \in Clients |-> NoDoc]
        /\ event = NoEvent
        /\ BrowserIdle

\* findById(id): the caller holds the loaded document and is about to call
\* updateAdvancePayment(newAdvanceAmount) on it
FindForUpdate ==
    /\ event.op # "document.updateAdvancePayment"
    /\ \E r \in db, newAdvanceAmount \in UpdateArguments :
        /\ doc' = [doc EXCEPT ![1] = LoadDocument(r)]
        /\ event' = Request("document.updateAdvancePayment", newAdvanceAmount)
    /\ UNCHANGED <<salaryRecordsList, deleteModal, fn, argT, argA, ret, db, nextId, pc>>

\* the call, the write of save() included
CallUpdateAdvancePayment ==
    /\ event.op = "document.updateAdvancePayment"
    /\ LET updated == updateAdvancePayment(doc[1], event.data)
       IN  /\ doc' = [doc EXCEPT ![1] = updated.doc]
           /\ db' = IF updated.ok
                    THEN {r \in db : r.id # doc[1].id} \cup {updated.doc}
                    ELSE db
           /\ event' = Response("updateAdvancePayment", 0, "", updated.err)
    /\ UNCHANGED <<salaryRecordsList, deleteModal, fn, argT, argA, ret, nextId, pc>>

NextUpdate ==
    \/ FindForUpdate
    \/ CallUpdateAdvancePayment

SpecUpdate == InitUpdate /\ [][NextUpdate]_vars

(***************************************************************************)
(* GET /salaries: the listing.  A query parameter is a string; the ones the *)
(* handler parses are modelled as sequences of characters.                 *)
(***************************************************************************)
\* a query parameter that is absent (undefined) or given with a text
Absent == [given |-> FALSE, text |-> <<>>]
Given(text) == [given |-> TRUE, text |-> text]

IsDigit(character) == \E i \in 1..10 : DecimalDigit[i] = character
DigitValue(character) == (CHOOSE i \in 1..10 : DecimalDigit[i] = character) - 1

\* the value of the digits of text from position i up to the first character
\* that is not a digit
RECURSIVE LeadingDigits(_, _, _)
LeadingDigits(text, i, value) ==
    IF i > Len(text) \/ ~IsDigit(text[i]) THEN value
    ELSE LeadingDigits(text, i + 1, 10 * value + DigitValue(text[i]))

\* parseInt(text): an optional sign and the leading digits, whatever follows
\* them; NaN when there is no leading digit
ParseInt(text) ==
    LET signed == text # <<>> /\ text[1] \in {"-", "+"}
        first == IF signed THEN 2 ELSE 1
    IN  IF first > Len(text) \/ ~IsDigit(text[first])
        THEN [nan |-> TRUE, n |-> 0]
        ELSE [nan |-> FALSE,
              n |-> IF signed /\ text[1] = "-"
                    THEN 0 - LeadingDigits(text, first, 0)
                    ELSE LeadingDigits(text, first, 0)]

\* the filter the handler builds; "" and 0 stand for a criterion not set
Matches(r, filter) ==
    /\ filter.employeeId # "" => r.employeeId = filter.employeeId
    /\ filter.month # "" => r.month = filter.month
    /\ filter.year # 0 => r.year = filter.year
    /\ filter.paymentStatus # "" => r.paymentStatus = filter.paymentStatus

\* sort({createdAt: -1}): the documents of a set, most recently created first
\* (a later insert has the larger _id)
RECURSIVE MostRecentFirst(_)
MostRecentFirst(records) ==
    IF records = {} THEN <<>>
    ELSE LET latest == CHOOSE r \in records : \A o \in records : o.id <= r.id
         IN  <<latest>> \o MostRecentFirst(records \ {latest})

\* find(filter).sort(...).limit(limitNum).skip(skipNum): the store skips
\* first and limits afterwards
FindPage(store, filter, limitNum, skipNum) ==
    LET sorted == MostRecentFirst({r \in store : Matches(r, filter)})
        last == IF skipNum + limitNum < Len(sorted) THEN skipNum + limitNum ELSE Len(sorted)
    IN  SubSeq(sorted, skipNum + 1, last)

\* the handler of GET /salaries; find and countDocuments read the same store,
\* no write running between them
GetSalaries(query) ==
    LET yearNum == ParseInt(query.year.text)
        yearSet == query.year.given /\ query.year.text # <<>>
        limitNum == IF query.limit.given THEN ParseInt(query.limit.text)
                    ELSE [nan |-> FALSE, n |-> 50]
        skipNum == IF query.skip.given THEN ParseInt(query.skip.text)
                   ELSE [nan |-> FALSE, n |-> 0]
        filter == [employeeId |-> query.employeeId,
                   month |-> query.month,
                   year |-> IF yearSet THEN yearNum.n ELSE 0,
                   paymentStatus |-> query.paymentStatus]
        totalCount == Cardinality({r \in db : Matches(r, filter)})
    IN  IF query.month # "" /\ query.month \notin MonthNameSet
        THEN Response("GET /salaries", 400, "month",
                      "Invalid month. Must be a valid month name (e.g., January, February, etc.)")
        ELSE IF yearSet /\ (yearNum.nan \/ yearNum.n < 2000 \/ yearNum.n > 2100)
        THEN Response("GET /salaries", 400, "year",
                      "Invalid year. Must be a number between 2000 and 2100")
        ELSE IF query.paymentStatus # ""
                /\ query.paymentStatus \notin {"Pending", "Partially Paid", "Paid"}
        THEN Response("GET /salaries", 400, "paymentStatus",
                      "Invalid payment status. Must be one of: Pending, Partially Paid, Paid")
        ELSE IF limitNum.nan \/ limitNum.n < 1 \/ limitNum.n > 100
        THEN Response("GET /salaries", 400, "limit",
                      "Invalid limit. Must be a number between 1 and 100")
        ELSE IF skipNum.nan \/ skipNum.n < 0
        THEN Response("GET /salaries", 400, "skip",
                      "Invalid skip. Must be a non-negative number")
        ELSE [Response("GET /salaries", 200, "", "") EXCEPT
                !.data = FindPage(db, filter, limitNum.n, skipNum.n),
                !.pagination = [total |-> totalCount,
                                limit |-> limitNum.n,
                                skip |-> skipNum.n,
                                hasMore |-> skipNum.n + limitNum.n < totalCount]]

\* the queries that arrive: any combination of these parameter values
QueryEmployeeIds == {"", "E1", "E2"}
QueryMonths == {"", "January", "Jan"}
QueryYears == {Absent, Given(<<"2", "0", "2", "4">>), Given(<<"1", "9", "9", "9">>)}
QueryStatuses == {"", "Paid", "Bogus"}
QueryLimits == {Absent, Given(<<"1">>), Given(<<"2">>), Given(<<"0">>), Given(<<"1", "e", "3">>)}
QuerySkips == {Absent, Given(<<"1">>), Given(<<"-", "1">>)}

\* a GET /salaries request arrives
ReceiveGet ==
    /\ event.op # "request GET /salaries"
    /\ \E employeeId \in QueryEmployeeIds, month \in QueryMonths, year \in QueryYears,
          paymentStatus \in QueryStatuses, limit \in QueryLimits, skip \in QuerySkips :
            event' = Request("request GET /salaries",
                             [employeeId |-> employeeId, month |-> month, year |-> year,
                              paymentStatus |-> paymentStatus, limit |-> limit, skip |-> skip])
    /\ UNCHANGED <<salaryRecordsList, deleteModal, fn, argT, argA, ret, db, nextId, pc, doc>>

\* the handler of GET /salaries runs on the query that arrived
HandleGet ==
    /\ event.op = "request GET /salaries"
    /\ RespondNow(GetSalaries(event.data))

\* the records of the stores that are listed, in the order they were saved
ListedData ==
    <<[employeeId |-> "E1", employeeName |-> "Ann", month |-> "January", year |-> 2024,
       totalMonthlySalary |-> Num(20), advanceAmountPaid |-> Num(0),
       remainingSalaryPayable |-> Num(20), paymentDate |-> "2024-01-15",
       paymentStatus |-> ""],
      [employeeId |-> "E1", employeeName |-> "Ann", month |-> "February", year |-> 2024,
       totalMonthlySalary |-> Num(20), advanceAmountPaid |-> Num(20),
       remainingSalaryPayable |-> Num(0), paymentDate |-> "2024-01-15",
       paymentStatus |-> ""],
      [employeeId |-> "E2", employeeName |-> "Bob", month |-> "January", year |-> 2023,
       totalMonthlySalary |-> Num(20), advanceAmountPaid |-> Num(20),
       remainingSalaryPayable |-> Num(0), paymentDate |-> "2024-01-15",
       paymentStatus |-> ""],
      [employeeId |-> "E1", employeeName |-> "Ann", month |-> "March", year |-> 2023,
       totalMonthlySalary |-> Num(30), advanceAmountPaid |-> Num(10),
       remainingSalaryPayable |-> Num(20), paymentDate |-> "2024-01-15",
       paymentStatus |-> ""]>>

\* the store after the first n of them were saved
RECURSIVE StoreAfter(_)
StoreAfter(n) ==
    IF n = 0 THEN [ok |-> TRUE, store |-> {}, ids |-> 0]
    ELSE LET before == StoreAfter(n - 1)
         IN  InsertOne(PrepareSave(NewSalaryRecord(ListedData[n])).doc,
                       before.store, before.ids)

InitList ==
    /\ fn = "none"
    /\ argT = Zero
    /\ argA = Zero
    /\ ret = NoOutcome
    /\ \E n \in 0..Len(ListedData) :
        /\ db = StoreAfter(n).store
        /\ nextId = StoreAfter(n).ids
    /\ pc = [c \in Clients |-> "idle"]
    /\ doc = [c \in Clients |-> NoDoc]
    /\ event = NoEvent
    /\ BrowserIdle

NextList ==
    \/ ReceiveGet
    \/ HandleGet

SpecList == InitList /\ [][NextList]_vars

(***************************************************************************)
(* GET /employees/:employeeId/salaries: one employee's records and their   *)
(* summary.                                                                *)
(***************************************************************************)
\* the position of a month name in the order of strings
MonthStringRank(month) ==
    LET sorted == <<"April", "August", "December", "February", "January", "July",
                    "June", "March", "May", "November", "October", "September">>
    IN  CHOOSE i \in 1..12 : sorted[i] = month

\* sort({ year: -1, month: 1 }): the later year first, within a year the month
\* names in the order of strings, then the order of insertion
RECURSIVE YearThenMonth(_)
YearThenMonth(records) ==
    IF records = {} THEN <<>>
    ELSE LET Before(r, o) ==
                \/ r.year > o.year
                \/ r.year = o.year /\ MonthStringRank(r.month) < MonthStringRank(o.month)
                \/ r.year = o.year /\ r.month = o.month /\ r.id <= o.id
             first == CHOOSE r \in records : \A o \in records : Before(r, o)
         IN  <<first>> \o YearThenMonth(records \ {first})

\* reduce((sum, record) => sum + record[path], 0), in thousandths
RECURSIVE SumOf(_, _)
SumOf(salaryRecords, path) ==
    IF salaryRecords = <<>> THEN 0
    ELSE SumOf(SubSeq(salaryRecords, 1, Len(salaryRecords) - 1), path)
            + salaryRecords[Len(salaryRecords)][path].v

\* the statusCounts object: a key for each status that occurs
StatusCounts(salaryRecords) ==
    [status \in {salaryRecords[i].paymentStatus : i \in 1..Len(salaryRecords)} |->
        Cardinality({i \in 1..Len(salaryRecords) : salaryRecords[i].paymentStatus = status})]

\* a summary whose totalRemaining adds up the advances once more
SummaryAdvancesTwice(salaryRecords) ==
    [totalRecords |-> Len(salaryRecords),
     totalSalary |-> RoundToCents(Num(SumOf(salaryRecords, "totalMonthlySalary"))),
     totalAdvances |-> RoundToCents(Num(SumOf(salaryRecords, "advanceAmountPaid"))),
     totalRemaining |-> RoundToCents(Num(SumOf(salaryRecords, "advanceAmountPaid"))),
     statusCounts |-> StatusCounts(salaryRecords)]

\* the summary statistics of the records found
Summary(salaryRecords) ==
    [totalRecords |-> Len(salaryRecords),
     totalSalary |-> RoundToCents(Num(SumOf(salaryRecords, "totalMonthlySalary"))),
     totalAdvances |-> RoundToCents(Num(SumOf(salaryRecords, "advanceAmountPaid"))),
     totalRemaining |-> RoundToCents(Num(SumOf(salaryRecords, "remainingSalaryPayable"))),
     statusCounts |-> StatusCounts(salaryRecords)]

\* the handler of GET /employees/:employeeId/salaries
GetEmployeeSalaries(params) ==
    LET yearNum == ParseInt(params.year.text)
        yearSet == params.year.given /\ params.year.text # <<>>
        filter == [employeeId |-> params.employeeId,
                   month |-> "",
                   year |-> IF yearSet THEN yearNum.n ELSE 0,
                   paymentStatus |-> params.paymentStatus]
        salaryRecords == YearThenMonth({r \in db : Matches(r, filter)})
    IN  IF params.employeeId = ""
        THEN Response("GET /employees/:employeeId/salaries", 400, "employeeId",
                      "Employee ID is required")
        ELSE IF yearSet /\ (yearNum.nan \/ yearNum.n < 2000 \/ yearNum.n > 2100)
        THEN Response("GET /employees/:employeeId/salaries", 400, "year",
                      "Invalid year. Must be a number between 2000 and 2100")
        ELSE IF params.paymentStatus # ""
                /\ params.paymentStatus \notin {"Pending", "Partially Paid", "Paid"}
        THEN Response("GET /employees/:employeeId/salaries", 400, "paymentStatus",
                      "Invalid payment status. Must be one of: Pending, Partially Paid, Paid")
        ELSE [Response("GET /employees/:employeeId/salaries", 200, "", "") EXCEPT
                !.data = salaryRecords,
                !.summary = Summary(salaryRecords)]

\* the employees asked for; "E9" has no record
PathEmployeeIds == {"E1", "E2", "E9"}
EmployeeStatuses == {"", "Paid", "Partially Paid", "Bogus"}

\* a GET /employees/:employeeId/salaries request arrives
ReceiveEmployeeGet ==
    /\ event.op # "request GET /employees/:employeeId/salaries"
    /\ \E employeeId \in PathEmployeeIds, year \in QueryYears,
          paymentStatus \in EmployeeStatuses :
            event' = Request("request GET /employees/:employeeId/salaries",
                             [employeeId |-> employeeId, year |-> year,
                              paymentStatus |-> paymentStatus])
    /\ UNCHANGED <<salaryRecordsList, deleteModal, fn, argT, argA, ret, db, nextId, pc, doc>>

\* the handler runs on the request that arrived
HandleEmployeeGet ==
    /\ event.op = "request GET /employees/:employeeId/salaries"
    /\ RespondNow(GetEmployeeSalaries(event.data))

NextEmployee ==
    \/ ReceiveEmployeeGet
    \/ HandleEmployeeGet

SpecEmployee == InitList /\ [][NextEmployee]_vars

(***************************************************************************)
(* One record addressed by its id: DELETE /salaries/:id and                *)
(* GET /salaries/:id, one request at a time.                               *)
(***************************************************************************)
\* a DELETE /salaries/:id request arrives
ReceiveDelete ==
    /\ pc[1] = "idle"
    /\ event.op # "request DELETE /salaries/:id"
    /\ \E id \in IdParams : event' = Request("request DELETE /salaries/:id", id)
    /\ UNCHANGED <<salaryRecordsList, deleteModal, fn, argT, argA, ret, db, nextId, pc, doc>>

\* the handler runs on the :id that arrived
HandleDelete ==
    /\ event.op = "request DELETE /salaries/:id"
    /\ DeleteSalary(1, {event.data})

\* a GET /salaries/:id request arrives
ReceiveGetById ==
    /\ pc[1] = "idle"
    /\ event.op # "request GET /salaries/:id"
    /\ \E id \in IdParams : event' = Request("request GET /salaries/:id", id)
    /\ UNCHANGED <<salaryRecordsList, deleteModal, fn, argT, argA, ret, db, nextId, pc, doc>>

\* the handler runs on the :id that arrived
HandleGetById ==
    /\ event.op = "request GET /salaries/:id"
    /\ RespondNow(GetSalaryById(db, event.data))

NextById ==
    \/ ReceiveDelete
    \/ HandleDelete
    \/ DeleteRemove(1)
    \/ ReceiveGetById
    \/ HandleGetById

SpecById == InitList /\ [][NextById]_vars

(***************************************************************************)
(* components/SalaryTracker: the browser's list of records, the form's     *)
(* submit and the delete flow, against the handlers of one server.         *)
(***************************************************************************)
\* a stored document as GET /salaries sends it (lean): the identifier is the
\* member _id
LeanJson(r) ==
    [_id |-> r.id,
     employeeId |-> r.employeeId,
     employeeName |-> r.employeeName,
     month |-> r.month,
     year |-> r.year,
     totalMonthlySalary |-> r.totalMonthlySalary,
     advanceAmountPaid |-> r.advanceAmountPaid,
     remainingSalaryPayable |-> r.remainingSalaryPayable,
     paymentDate |-> r.paymentDate,
     paymentStatus |-> r.paymentStatus]

\* record._id as the segment of a request path: a member that is missing reads
\* undefined, and "undefined" is not a string of 24 hex digits
RecordId(record) ==
    IF "_id" \in DOMAIN record
    THEN [hex24 |-> TRUE, n |-> record._id]
    ELSE [hex24 |-> FALSE, n |-> 0]

\* an empty form field
EmptyText == [kind |-> "empty", v |-> 0, below |-> FALSE]

\* JSON.stringify of a number: NaN and the infinities are sent as null
JsonNumber(x) == IF x.kind \in {"nan", "inf", "ninf"} THEN NullValue ELSE x

\* the forms that are submitted: month 0 is the unselected option
FormData ==
    {[employeeId |-> employeeId, employeeName |-> "Ann", month |-> month, year |-> 2024,
      totalMonthlySalary |-> total, advanceAmountPaid |-> advance,
      paymentDate |-> "2024-01-15"] :
        employeeId \in {"", "E1", "E2"}, month \in {0, 1},
        total \in {EmptyText, StringValue, Num(20)}, advance \in {EmptyText, Num(0), Num(20)}}

\* the query of a GET /salaries without parameters
NoQuery ==
    [employeeId |-> "", month |-> "", year |-> Absent, paymentStatus |-> "",
     limit |-> Absent, skip |-> Absent]

\* fetchSalaryRecords: GET /api/salaries and its answer; the list is replaced
\* by the answer's data
FetchSalaryRecords ==
    /\ pc[1] = "idle"
    /\ ~deleteModal.isDeleting
    /\ event.op \notin {"request POST /addSalary", "POST /addSalary",
                        "request DELETE /salaries/:id"}
    /\ LET response == GetSalaries(NoQuery)
       IN  /\ event' = response
           /\ salaryRecordsList' =
                [i \in 1..Len(response.data) |-> LeanJson(response.data[i])]
    /\ UNCHANGED <<fn, argT, argA, ret, db, nextId, pc, doc, deleteModal>>

\* handleSubmit up to the await of axios.post
HandleSubmit ==
    /\ pc[1] = "idle"
    /\ ~deleteModal.isDeleting
    /\ event.op \notin {"request POST /addSalary", "POST /addSalary",
                        "request DELETE /salaries/:id"}
    /\ \E formData \in FormData :
        IF \/ formData.employeeId = "" \/ formData.employeeName = "" \/ formData.month = 0
           \/ formData.totalMonthlySalary = EmptyText
           \/ formData.advanceAmountPaid = EmptyText
        THEN event' = Response("handleSubmit", 0, "", "Please fill in all required fields")
        ELSE event' = Request("request POST /addSalary",
                [employeeId |-> formData.employeeId,
                 employeeName |-> formData.employeeName,
                 month |-> formData.month,
                 year |-> formData.year,
                 totalMonthlySalary |->
                    JsonNumber(ParseFloatOnly(formData.totalMonthlySalary)),
                 advanceAmountPaid |->
                    JsonNumber(ParseFloatOnly(formData.advanceAmountPaid)),
                 paymentDate |-> formData.paymentDate])
    /\ UNCHANGED <<fn, argT, argA, ret, db, nextId, pc, doc, salaryRecordsList, deleteModal>>

\* handleSubmit from the answer of POST /api/addSalary on: response.data.data
\* is put in front of the list, or the error is shown
SubmitAnswered ==
    /\ event.op = "POST /addSalary"
    /\ event.status # 0
    /\ IF event.status = 201
       THEN /\ salaryRecordsList' = <<event.data>> \o salaryRecordsList
            /\ event' = Response("handleSubmit", 0, "", "")
       ELSE /\ salaryRecordsList' = salaryRecordsList
            /\ event' = Response("handleSubmit", 0, "", event.error)
    /\ UNCHANGED <<fn, argT, argA, ret, db, nextId, pc, doc, deleteModal>>

\* openDeleteModal(record) for a record of the list
OpenDeleteModal ==
    /\ ~deleteModal.isOpen
    /\ \E i \in 1..Len(salaryRecordsList) :
        deleteModal' = [isOpen |-> TRUE,
                        recordId |-> RecordId(salaryRecordsList[i]),
                        employeeName |-> salaryRecordsList[i].employeeName,
                        isDeleting |-> FALSE]
    /\ UNCHANGED <<fn, argT, argA, ret, db, nextId, pc, doc, event, salaryRecordsList>>

\* closeDeleteModal: the modal is dismissed
CloseDeleteModal ==
    /\ deleteModal.isOpen
    /\ ~deleteModal.isDeleting
    /\ deleteModal' = ModalClosed
    /\ UNCHANGED <<fn, argT, argA, ret, db, nextId, pc, doc, event, salaryRecordsList>>

\* deleteSalaryRecord up to the await of axios.delete
DeleteSalaryRecord ==
    /\ deleteModal.isOpen
    /\ ~deleteModal.isDeleting
    /\ pc[1] = "idle"
    /\ event.op \notin {"request POST /addSalary", "POST /addSalary"}
    /\ deleteModal' = [deleteModal EXCEPT !.isDeleting = TRUE]
    /\ event' = Request("request DELETE /salaries/:id", deleteModal.recordId)
    /\ UNCHANGED <<fn, argT, argA, ret, db, nextId, pc, doc, salaryRecordsList>>

\* deleteSalaryRecord from the answer of DELETE on: the records whose _id is
\* the modal's recordId leave the list and the modal closes, or the error is
\* shown and the modal stays
DeleteAnsweredInBrowser ==
    /\ deleteModal.isDeleting
    /\ event.op = "DELETE /salaries/:id"
    /\ event.status # 0
    /\ IF event.status = 200
       THEN /\ salaryRecordsList' =
                SelectSeq(salaryRecordsList,
                          LAMBDA record : RecordId(record) # deleteModal.recordId)
            /\ deleteModal' = ModalClosed
            /\ event' = Response("deleteSalaryRecord", 0, "", "")
       ELSE /\ salaryRecordsList' = salaryRecordsList
            /\ deleteModal' = [deleteModal EXCEPT !.isDeleting = FALSE]
            /\ event' = Response("deleteSalaryRecord", 0, "", event.error)
    /\ UNCHANGED <<fn, argT, argA, ret, db, nextId, pc, doc>>

NextBrowser ==
    \/ FetchSalaryRecords
    \/ HandleSubmit
    \/ HandlePost
    \/ PostInsert(1)
    \/ SubmitAnswered
    \/ OpenDeleteModal
    \/ CloseDeleteModal
    \/ DeleteSalaryRecord
    \/ HandleDelete
    \/ DeleteRemove(1)
    \/ DeleteAnsweredInBrowser

SpecBrowser == InitStore /\ [][NextBrowser]_vars

UniqueKeys == \A r1 \in db, r2 \in db : SameKey(r1, r2) => r1 = r2

DuplicateAnswered ==
    \A c \in Clients :
        (pc[c] = "save" /\ pc'[c] = "idle" /\ DuplicateKey(doc[c].record, db)) =>
            /\ event'.op = "POST /addSalary"
            /\ event'.status = 400
            /\ event'.error = "A salary record for this employee and month/year already exists"
            /\ db' = db

\* C7: under any interleaving of create requests and deletes the store never
\* holds two records with the same (employeeId, year, month), and a POST
\* /addSalary whose key is stored when its insert runs answers 400 with the
\* error that the record already exists and adds no record.
C7_UniqueEmployeePeriod == []UniqueKeys /\ [][DuplicateAnswered]_vars

\* a duplicate has just been answered while another request carrying the same
\* employee and period is still waiting for its insert
C7_Witness ==
    /\ event.status = 400 /\ event.field = "duplicate_record"
    /\ \E c \in Clients : pc[c] = "save" /\ DuplicateKey(doc[c].record, db)

\* C8: a step of POST /addSalary that does not answer 201 (a failed field
\* check, an engine failure, a schema validation failure, a duplicate, or no
\* answer yet) leaves the set of stored records unchanged; a step that
\* answers 201 adds exactly one record and changes no other record.
C8_OnlyCreatedStores ==
    [][event'.op = "POST /addSalary" =>
        IF event'.status = 201
        THEN db \subseteq db' /\ Cardinality(db' \ db) = 1
        ELSE db' = db]_vars

\* a 201 has just been answered for a record added to a store that already
\* held one
C8_Witness ==
    /\ event.op = "POST /addSalary" /\ event.status = 201
    /\ Cardinality(db) = 2

(***************************************************************************)
(* Agreement of the layers.                                                *)
(***************************************************************************)
\* C11: for every (total, advance), calculateSalaryDetails succeeds exactly
\* when the schema validators of totalMonthlySalary and advanceAmountPaid
\* accept the pair: nothing the engine accepts is rejected on save, nor the
\* reverse.
C11_EngineSchemaAgree ==
    fn = "calculateSalaryDetails" => (ret.ok <=> SchemaAcceptsPair(argT, argA))

\* C12: whenever the advance is 0 the status is 'Pending', and the status is
\* 'Paid' only when the remaining amount is 0 and the total is greater than
\* 0; for determinePaymentStatus and for the status stored on every record.
C12_ZeroAdvancePending ==
    /\ (fn = "determinePaymentStatus" /\ ret.ok) =>
        /\ JsStrictEquals(argA, Zero) => ret.str = "Pending"
        /\ ret.str = "Paid" =>
            /\ JsStrictEquals(calculateRemainingSalary(argT, argA).num, Zero)
            /\ JsGreater(argT, Zero)
    /\ \A r \in db :
        /\ JsStrictEquals(r.advanceAmountPaid, Zero) => r.paymentStatus = "Pending"
        /\ r.paymentStatus = "Paid" =>
            /\ JsStrictEquals(r.remainingSalaryPayable, Zero)
            /\ JsGreater(r.totalMonthlySalary, Zero)

(***************************************************************************)
(* Percentage, live calculation and display.                               *)
(***************************************************************************)
\* C17: calculateAdvancePercentage returns 0 when the total is 0 and otherwise
\* advance / total as a percentage rounded to 2 decimals (the result, a whole
\* number of hundredths of a percent, lies within half a hundredth of the
\* exact ratio); for every valid pair the result is in [0, 100]; the call
\* fails on every pair validateAdvanceAmount rejects.
C17_AdvancePercentage ==
    fn = "calculateAdvancePercentage" =>
        /\ ~validateAdvanceAmount(argT, argA).ok => ~ret.ok
        /\ ValidPair =>
            /\ ret.ok /\ ret.num.kind = "num"
            /\ argT.v = 0 => ret.num = Zero
            /\ argT.v > 0 =>
                /\ ret.num.v % 10 = 0
                /\ ret.num.v * argT.v - 100000 * argA.v <= 5 * argT.v
                /\ 100000 * argA.v - ret.num.v * argT.v <= 5 * argT.v
            /\ 0 <= ret.num.v /\ ret.num.v <= 100000

\* a third of the total was advanced: 33.33 percent; the zero pair is covered
\* by the same run
C17_Witness ==
    /\ fn = "calculateAdvancePercentage"
    /\ argT = Num(30) /\ argA = Num(10)
    /\ ret = Return(Num(33330))

\* the number a form field's text stands for: empty or unparsable text is 0
FieldNumber(x) == IF x.kind \in {"num", "inf", "ninf"} THEN x ELSE Zero

\* C18: the live calculation never fails: a negative amount shows 'Invalid'
\* with remaining 0, otherwise an advance above the total shows 'Invalid -
\* Advance exceeds total' with remaining 0, empty or unparsable input counts
\* as 0, and every other case shows 'Pending', 'Partially Paid' or 'Paid'.
C18_LiveNeverFails ==
    fn = "calculateRealTimeValues" =>
        LET total == FieldNumber(argT)
            advance == FieldNumber(argA)
        IN  /\ ret.ok
            /\ IF JsLess(total, Zero) \/ JsLess(advance, Zero)
               THEN ret.str = "Invalid" /\ ret.num = Zero
               ELSE IF JsGreater(advance, total)
               THEN ret.str = "Invalid - Advance exceeds total" /\ ret.num = Zero
               ELSE ret.str \in {"Pending", "Partially Paid", "Paid"}

\* the total field holds unparsable text, so the advance of 0.01 exceeds it
C18_Witness ==
    /\ fn = "calculateRealTimeValues"
    /\ argT = StringValue /\ argA = Num(10)
    /\ ret.str = "Invalid - Advance exceeds total" /\ ret.num = Zero

\* the strings that are a symbol followed by an amount with two decimals
TwoDecimalStrings(symbol) ==
    {symbol \o sign \o DecimalString(whole) \o "." \o DecimalDigit[d1] \o DecimalDigit[d2] :
        sign \in {"", "-"}, whole \in 0..1, d1 \in 1..10, d2 \in 1..10}

\* C19: formatCurrency never fails; for an amount that is not a finite number
\* it returns a zero-amount string, which for NaN and Infinity is '$0.00'
\* whatever the caller's symbol; for a finite number it returns the symbol
\* followed by the amount with exactly two decimals.
C19_FormatNeverFails ==
    fn = "formatCurrency" =>
        LET symbol == IF argA = UndefinedValue THEN "₹" ELSE StringText
        IN  /\ ret.ok
            /\ argT.kind \in {"nan", "inf"} => ret.str = "$0.00"
            /\ argT.kind \notin {"num", "nan", "inf"} => ret.str \in {symbol \o "0.00", "$0.00"}
            /\ argT.kind = "num" => ret.str \in TwoDecimalStrings(symbol)


(***************************************************************************)
(* The listing.                                                            *)
(***************************************************************************)
\* a text that is a decimal integer, digits only after an optional minus sign
PlainInteger(text) ==
    LET first == IF text # <<>> /\ text[1] = "-" THEN 2 ELSE 1
    IN  /\ first <= Len(text)
        /\ \A i \in first..Len(text) : IsDigit(text[i])

\* the integer a plain text denotes
PlainValue(text) ==
    IF text[1] = "-" THEN 0 - LeadingDigits(text, 2, 0) ELSE LeadingDigits(text, 1, 0)

\* the fields of a query that are invalid
OffendingFields(q) ==
    {f \in {"month", "year", "paymentStatus", "limit", "skip"} :
        \/ f = "month" /\ q.month # "" /\ q.month \notin MonthNameSet
        \/ f = "year" /\ q.year.given
             /\ (~PlainInteger(q.year.text)
                 \/ PlainValue(q.year.text) < 2000 \/ PlainValue(q.year.text) > 2100)
        \/ f = "paymentStatus" /\ q.paymentStatus # ""
             /\ q.paymentStatus \notin {"Pending", "Partially Paid", "Paid"}
        \/ f = "limit" /\ q.limit.given
             /\ (~PlainInteger(q.limit.text)
                 \/ PlainValue(q.limit.text) < 1 \/ PlainValue(q.limit.text) > 100)
        \/ f = "skip" /\ q.skip.given
             /\ (~PlainInteger(q.skip.text) \/ PlainValue(q.skip.text) < 0)}

\* a stored record matches every filter the query supplies
MatchesQuery(r, q) ==
    /\ q.employeeId # "" => r.employeeId = q.employeeId
    /\ q.month # "" => r.month = q.month
    /\ q.year.given => r.year = PlainValue(q.year.text)
    /\ q.paymentStatus # "" => r.paymentStatus = q.paymentStatus

ListAnswered ==
    event.op = "request GET /salaries" /\ event'.op = "GET /salaries" =>
        LET q == event.data
            limit == IF q.limit.given THEN PlainValue(q.limit.text) ELSE 50
            skip == IF q.skip.given THEN PlainValue(q.skip.text) ELSE 0
            matching == {r \in db : MatchesQuery(r, q)}
            total == Cardinality(matching)
            rest == IF total > skip THEN total - skip ELSE 0
        IN  /\ db' = db
            /\ OffendingFields(q) # {} =>
                /\ event'.status = 400
                /\ event'.field \in OffendingFields(q)
                /\ event'.data = NoDoc
            /\ OffendingFields(q) = {} =>
                /\ event'.status = 200
                /\ \A i \in 1..Len(event'.data) : event'.data[i] \in matching
                /\ \A i, j \in 1..Len(event'.data) :
                        i # j => event'.data[i] # event'.data[j]
                /\ Len(event'.data) = IF rest < limit THEN rest ELSE limit
                /\ event'.pagination.total = total
                /\ event'.pagination.hasMore = (skip + limit < total)

\* C20: GET /salaries returns only records matching every supplied filter
\* (employeeId, month name, year, paymentStatus), at most limit of them after
\* skipping skip, reports pagination.total as the number of stored records
\* matching the filter and hasMore exactly when skip + limit < total; an
\* invalid month, year, paymentStatus, limit (outside 1..100) or skip is
\* answered 400 naming the offending field, with no data; the store is never
\* changed.
C20_ListingAnswered == [][ListAnswered]_vars


(***************************************************************************)
(* Order of the engine's checks, under SpecEngine.                         *)
(***************************************************************************)
\* the field name of a call of validateMonetaryAmount: the default when the
\* caller passes none
PassedFieldName == IF fn = "validateMonetaryAmount" THEN "amount" ELSE FieldNameText

\* C23: validateMonetaryAmount reports one failure per rejected amount, the
\* first of NotANumber, NotFinite, Negative, ExcessPrecision that applies, and
\* the message starts with the field name passed in: a non-number gives 'must
\* be a number', NaN and both infinities 'must be a finite number', a finite
\* negative amount 'cannot be negative' even with more than 2 decimals; an
\* amount whose third decimal is 2..8 'must have at most 2 decimal places'.
C23_FirstFailureReported ==
    fn \in {"validateMonetaryAmount", "validateMonetaryAmount(amount, fieldName)"} =>
        /\ argT.kind \in {"string", "null", "undefined"}
                => ret = Throw(PassedFieldName \o " must be a number")
        /\ argT.kind \in {"nan", "inf", "ninf"}
                => ret = Throw(PassedFieldName \o " must be a finite number")
        /\ (argT.kind = "num" /\ argT.v < 0)
                => ret = Throw(PassedFieldName \o " cannot be negative")
        /\ (argT.kind = "num" /\ argT.v >= 0) =>
                /\ ret \in {ReturnTrue,
                            Throw(PassedFieldName \o " must have at most 2 decimal places")}
                /\ argT.v % 10 = 0 => ret = ReturnTrue
                /\ argT.v % 10 \in 2..8 => ~ret.ok
C23_Witness ==
    /\ fn = "validateMonetaryAmount(amount, fieldName)"
    /\ argT = NegInfinity
    /\ ret = Throw("salary must be a finite number")

\* C24: validateAdvanceAmount validates the total (label 'Total monthly
\* salary'), then the advance (label 'Advance amount paid'), then compares:
\* an invalid total's failure is reported whatever the advance is, an invalid
\* advance's failure when the total is valid, and AdvanceExceedsTotal exactly
\* when both are valid and advance > total.
C24_TotalThenAdvanceThenComparison ==
    LET total == validateMonetaryAmount(argT, "Total monthly salary")
        advance == validateMonetaryAmount(argA, "Advance amount paid")
    IN  fn = "validateAdvanceAmount" =>
            /\ ~total.ok => ret = total
            /\ (total.ok /\ ~advance.ok) => ret = advance
            /\ ret = Throw("Advance amount cannot exceed total monthly salary")
                    <=> (total.ok /\ advance.ok /\ argA.v > argT.v)
            /\ (total.ok /\ advance.ok /\ argA.v <= argT.v) => ret = ReturnTrue
C24_Witness ==
    /\ fn = "validateAdvanceAmount"
    /\ argT = Num(-1) /\ argA = StringValue
    /\ ret = Throw("Total monthly salary cannot be negative")

\* C25: calculateRemainingSalary reports the first failing precondition in the
\* order TypeMismatch, NegativeTotal, NegativeAdvance, AdvanceExceedsTotal: a
\* non-numeric operand gives 'Salary amounts must be numbers' even when the
\* other operand is negative, a negative total 'Total monthly salary cannot be
\* negative' even when the advance is negative or exceeds the total.
C25_PreconditionOrder ==
    LET typeMismatch == ~TypeofNumber(argT) \/ ~TypeofNumber(argA)
        negativeTotal == JsLess(argT, Zero)
        negativeAdvance == JsLess(argA, Zero)
        exceeds == JsGreater(argA, argT)
    IN  fn = "calculateRemainingSalary" =>
            /\ typeMismatch => ret = Throw("Salary amounts must be numbers")
            /\ (~typeMismatch /\ negativeTotal)
                    => ret = Throw("Total monthly salary cannot be negative")
            /\ (~typeMismatch /\ ~negativeTotal /\ negativeAdvance)
                    => ret = Throw("Advance amount paid cannot be negative")
            /\ (~typeMismatch /\ ~negativeTotal /\ ~negativeAdvance /\ exceeds)
                    => ret = Throw("Advance amount cannot exceed total monthly salary")
            /\ (~typeMismatch /\ ~negativeTotal /\ ~negativeAdvance /\ ~exceeds) => ret.ok
C25_Witness ==
    /\ fn = "calculateRemainingSalary"
    /\ argT = Num(-2) /\ argA = Num(-1)
    /\ ret = Throw("Total monthly salary cannot be negative")

\* the four preconditions of calculateRemainingSalary hold of the operands
PassesPreconditions ==
    /\ TypeofNumber(argT) /\ TypeofNumber(argA)
    /\ ~JsLess(argT, Zero)
    /\ ~JsLess(argA, Zero)
    /\ ~JsGreater(argA, argT)

\* C26: for every pair of operands that passes the four preconditions, NaN
\* and infinite operands included, determinePaymentStatus returns 'Pending',
\* 'Partially Paid' or 'Paid': the 'Unable to determine payment status'
\* failure is unreachable.
C26_StatusAlwaysDetermined ==
    (fn = "determinePaymentStatus" /\ PassesPreconditions) =>
        /\ ret.ok
        /\ ret.str \in {"Pending", "Partially Paid", "Paid"}

\* C27: for every pair of operands that passes the four preconditions, amounts
\* with more than 2 decimals included, calculateRemainingSalary returns a
\* value in [0, total].
C27_RemainingWithinTotal ==
    (fn = "calculateRemainingSalary" /\ PassesPreconditions) =>
        /\ ret.ok
        /\ ~JsLess(ret.num, Zero) /\ ~JsGreater(ret.num, argT)
        /\ ret.num.kind # "nan"


(***************************************************************************)
(* The employee summary, under SpecEmployee.                               *)
(***************************************************************************)
\* the sum of a path over a set of records, in thousandths
RECURSIVE TotalOver(_, _)
TotalOver(records, path) ==
    IF records = {} THEN 0
    ELSE LET r == CHOOSE x \in records : TRUE
         IN  r[path].v + TotalOver(records \ {r}, path)

\* the sum of the values of a statusCounts object
RECURSIVE CountsTotal(_)
CountsTotal(counts) ==
    IF DOMAIN counts = {} THEN 0
    ELSE LET status == CHOOSE x \in DOMAIN counts : TRUE
         IN  counts[status]
                + CountsTotal([x \in DOMAIN counts \ {status} |-> counts[x]])

\* C21: in every 200 answer of GET /employees/:employeeId/salaries,
\* summary.totalRecords is the number of returned records, totalSalary,
\* totalAdvances and totalRemaining are the sums of the records' fields,
\* totalAdvances + totalRemaining equals totalSalary and the values of
\* statusCounts add up to totalRecords; with no record all of them are 0.
C21_SummaryOfReturnedRecords ==
    (event.op = "GET /employees/:employeeId/salaries" /\ event.status = 200) =>
        LET returned == {event.data[i] : i \in 1..Len(event.data)}
            summary == event.summary
        IN  /\ Cardinality(returned) = Len(event.data)
            /\ summary.totalRecords = Len(event.data)
            /\ summary.totalSalary = Num(TotalOver(returned, "totalMonthlySalary"))
            /\ summary.totalAdvances = Num(TotalOver(returned, "advanceAmountPaid"))
            /\ summary.totalRemaining = Num(TotalOver(returned, "remainingSalaryPayable"))
            /\ summary.totalAdvances.v + summary.totalRemaining.v = summary.totalSalary.v
            /\ CountsTotal(summary.statusCounts) = summary.totalRecords
            /\ event.data = <<>> =>
                /\ summary.totalRecords = 0
                /\ summary.totalSalary = Zero
                /\ summary.totalAdvances = Zero
                /\ summary.totalRemaining = Zero
                /\ CountsTotal(summary.statusCounts) = 0
C21_Witness ==
    /\ event.op = "GET /employees/:employeeId/salaries"
    /\ event.status = 200
    /\ event.summary.totalRecords = 3
    /\ event.summary.totalSalary = Num(70)
    /\ event.summary.totalAdvances = Num(30)
    /\ event.summary.totalRemaining = Num(40)
    /\ DOMAIN event.summary.statusCounts = {"Pending", "Partially Paid", "Paid"}

(***************************************************************************)
(* Deleting a record by its id, under SpecById.                            *)
(***************************************************************************)
\* the :id that names a stored record's _id
IdOf(r) == [hex24 |-> TRUE, n |-> r.id]

DeleteAnswered ==
    /\ (event.op = "request DELETE /salaries/:id" /\ event'.op = "DELETE /salaries/:id") =>
            LET id == event.data
                stored == {r \in db : id.hex24 /\ r.id = id.n}
            IN  /\ db' = db
                /\ ~id.hex24 => event'.status = 400
                /\ (id.hex24 /\ stored = {}) => event'.status = 404
                /\ stored # {} =>
                    /\ event'.status = 0
                    /\ pc'[1] = "delete"
                    /\ doc'[1] \in stored
    /\ (pc[1] = "delete" /\ pc'[1] = "idle") =>
            /\ event'.op = "DELETE /salaries/:id"
            /\ event'.status = 200
            /\ event'.data.id = doc[1].id
            /\ doc[1] \in db
            /\ db' = db \ {doc[1]}
            /\ GetSalaryById(db', IdOf(doc[1])).status = 404
    /\ (event.op = "request GET /salaries/:id" /\ event'.op = "GET /salaries/:id") =>
            /\ db' = db
            /\ event' = GetSalaryById(db, event.data)

\* C22: DELETE /salaries/:id with a malformed id answers 400 and changes
\* nothing; with a well-formed id of no stored record 404 and changes nothing;
\* with the id of a stored record it answers 200, removes exactly that record
\* and leaves every other record unchanged, and GET /salaries/:id for that id
\* then answers 404.
C22_DeleteRemovesThatRecord == [][DeleteAnswered]_vars
C22_Witness ==
    /\ event.op = "DELETE /salaries/:id"
    /\ event.status = 200
    /\ event.data.id = 1
    /\ Cardinality(db) = 3
    /\ GetSalaryById(db, [hex24 |-> TRUE, n |-> 1]).status = 404

(***************************************************************************)
(* Concurrent deletes, under SpecApi.                                      *)
(***************************************************************************)
DeleteTookTheRecord ==
    \A c \in Clients :
        (pc[c] = "delete" /\ pc'[c] = "idle" /\ event'.status = 200) =>
            /\ doc[c] \in db
            /\ doc[c] \notin db'

\* C29: of the concurrent DELETE /salaries/:id requests for one stored id,
\* one answers 200 and every other 404: a request that answers 200 has itself
\* removed the record.
C29_OneDeleteSucceeds == [][DeleteTookTheRecord]_vars


(***************************************************************************)
(* Updating the advance, under SpecUpdate.                                 *)
(***************************************************************************)
UpdateAnswered ==
    (event.op = "document.updateAdvancePayment" /\ event'.op = "updateAdvancePayment") =>
        LET n == event.data
            before == doc[1]
            after == doc'[1]
            remaining == calculateRemainingSalary(before.totalMonthlySalary, n)
            status == determinePaymentStatus(before.totalMonthlySalary, n)
        IN  /\ (JsLess(n, Zero) \/ JsGreater(n, before.totalMonthlySalary)) =>
                /\ event'.error # ""
                /\ after.advanceAmountPaid = before.advanceAmountPaid
                /\ after.remainingSalaryPayable = before.remainingSalaryPayable
                /\ after.paymentStatus = before.paymentStatus
                /\ db' = db
            /\ (/\ TwoDecimalAmount(n)
                /\ ~JsGreater(n, before.totalMonthlySalary)) =>
                /\ event'.error = ""
                /\ db' = {r \in db : r.id # before.id}
                            \cup {[before EXCEPT !.advanceAmountPaid = n,
                                                 !.remainingSalaryPayable = remaining.num,
                                                 !.paymentStatus = status.str]}

\* C28: updateAdvancePayment(n) on a stored record throws and leaves
\* advanceAmountPaid, remainingSalaryPayable and paymentStatus as they were, in
\* memory and in the store, when n < 0 or n > totalMonthlySalary; for a valid
\* monetary amount n with 0 <= n <= totalMonthlySalary it persists
\* advanceAmountPaid = n with the re-derived remainingSalaryPayable and
\* paymentStatus, totalMonthlySalary and the identity fields unchanged.
C28_AdvanceUpdated == [][UpdateAnswered]_vars


(***************************************************************************)
(* The browser's list, under SpecBrowser.                                  *)
(***************************************************************************)
\* every listed record carries in _id the identifier of a record the server
\* has stored
ListedCarryServerId ==
    \A i \in 1..Len(salaryRecordsList) :
        /\ "_id" \in DOMAIN salaryRecordsList[i]
        /\ salaryRecordsList[i]._id \in 1..nextId

\* confirming the modal sends DELETE for the id of a listed record, and a
\* successful delete takes exactly the records of that id from the list
DeleteFlow ==
    /\ (~deleteModal.isDeleting /\ deleteModal'.isDeleting) =>
            /\ event'.op = "request DELETE /salaries/:id"
            /\ event'.data.hex24
            /\ \E i \in 1..Len(salaryRecordsList) :
                    RecordId(salaryRecordsList[i]) = event'.data
    /\ (deleteModal.isDeleting /\ event.op = "DELETE /salaries/:id" /\ event.status = 200
            /\ ~deleteModal'.isDeleting) =>
            salaryRecordsList' =
                SelectSeq(salaryRecordsList,
                          LAMBDA record : "_id" \notin DOMAIN record
                                            \/ record._id # deleteModal.recordId.n)

\* C30: every record of the browser's list, loaded by GET /api/salaries or put
\* in front from the answer of a successful POST /api/addSalary, carries the
\* server's identifier in _id, the member the list key and the delete flow
\* read: confirming the delete modal sends DELETE for that record's server id
\* and, when it succeeds, takes exactly that record from the list.
C30_ListedRecordsDeletable == []ListedCarryServerId /\ [][DeleteFlow]_vars

====
